---------------------------- MODULE Spec2Model ----------------------------
(***************************************************************************)
(* Data layer of the application builder back end: the Database metadata   *)
(* model (src/unnamed/part_000, models/Database) and the routes that use   *)
(* it (src/routes/databases.js, src/routes/databaseQueries.js).            *)
(*                                                                         *)
(* A request handler is an async function: the code between two `await`s   *)
(* runs atomically on the single JavaScript thread, and other requests     *)
(* run while a handler waits.  One action of the model is one such         *)
(* segment, ending at the storage call the handler awaits next.            *)
(*                                                                         *)
(* Strings the code slices or rewrites character by character (database    *)
(* names, owner ids, namespace ids) are sequences of one-character         *)
(* strings.  Table and column names are only compared, and are strings.    *)
(***************************************************************************)
EXTENDS Integers, Sequences, FiniteSets, TLC

(* ---------------------------------------------------------------- bounds *)
\* Object ids generated while requests interleave
MaxId == 2

\* Object ids generated while table or column requests run one at a time
MaxSeqId == 4

\* Object ids generated while requests of every kind run one at a time
MaxAllId == 2

\* Object ids generated while table, column, record and query requests
\* interleave
MaxMixId == 1

\* Length of the database names tried, and of what follows the first 14
\* characters of the long ones
MaxNameLen == 2

\* Greatest number among the values of record bodies and filters
MaxNumber == 2

\* Object ids generated while records of every value are written
MaxValueId == 1

(* ------------------------------------------------------- string helpers *)
UpperLetters ==
  <<"A","B","C","D","E","F","G","H","I","J","K","L","M",
    "N","O","P","Q","R","S","T","U","V","W","X","Y","Z">>

LowerLetters ==
  <<"a","b","c","d","e","f","g","h","i","j","k","l","m",
    "n","o","p","q","r","s","t","u","v","w","x","y","z">>

Digits == <<"0","1","2","3","4","5","6","7","8","9">>

Range(s) == {s[i] : i \in DOMAIN s}

\* String.prototype.toLowerCase, one character
LowerChar(c) ==
  IF c \in Range(UpperLetters)
  THEN LowerLetters[CHOOSE i \in DOMAIN UpperLetters : UpperLetters[i] = c]
  ELSE c

toLowerCase(s) == [i \in DOMAIN s |-> LowerChar(s[i])]

\* s.replace(/[^a-zA-Z0-9]/g, '_')
IsAlnum(c) == c \in Range(UpperLetters) \cup Range(LowerLetters) \cup Range(Digits)

replaceNonAlnum(s) == [i \in DOMAIN s |-> IF IsAlnum(s[i]) THEN s[i] ELSE "_"]

\* s.replace(/_+/g, '_')
RECURSIVE collapseUnderscores(_)
collapseUnderscores(s) ==
  IF Len(s) < 2 THEN s
  ELSE IF s[1] = "_" /\ s[2] = "_" THEN collapseUnderscores(Tail(s))
  ELSE <<s[1]>> \o collapseUnderscores(Tail(s))

\* s.replace(/^_|_$/g, ''): one leading and one trailing underscore
trimUnderscores(s) ==
  LET a == IF Len(s) > 0 /\ s[1] = "_" THEN Tail(s) ELSE s
  IN  IF Len(a) > 0 /\ a[Len(a)] = "_" THEN SubSeq(a, 1, Len(a) - 1) ELSE a

\* (a slice that does not cut)
sliceWhole(s, n) == s

\* s.slice(0, n)
sliceHead(s, n) == SubSeq(s, 1, IF Len(s) < n THEN Len(s) ELSE n)

\* s.slice(-n)
sliceTail(s, n) == IF Len(s) <= n THEN s ELSE SubSeq(s, Len(s) - n + 1, Len(s))

\* Number.prototype.toString of a non-negative integer
RECURSIVE numberToString(_)
numberToString(n) ==
  IF n < 10 THEN <<Digits[n + 1]>>
  ELSE numberToString(n \div 10) \o <<Digits[(n % 10) + 1]>>

\* databaseSchema.methods.generateMongoDbName
generateMongoDbName(owner, name, timeMs) ==
  LET sanitizedName ==
        trimUnderscores(collapseUnderscores(replaceNonAlnum(toLowerCase(name))))
      userIdShort == sliceTail(owner, 8)
      timestamp   == sliceTail(numberToString(timeMs), 6)
      nameShort   == sliceHead(sanitizedName, 15)
  IN  <<"u","d","b","_">> \o userIdShort \o <<"_">> \o nameShort
        \o <<"_">> \o timestamp


(* ------------------------------------------------------------ the inputs *)
\* Owner ids are ObjectId strings, 24 hexadecimal characters.  OwnerA and
\* OwnerB differ only before their last 8 characters.
OwnerA == <<"6","5","a","0","0","0","0","0","0","0","0","0","0","0","0","1",
            "0","0","c","0","f","f","e","e">>

OwnerB == <<"6","5","a","0","0","0","0","0","0","0","0","0","0","0","0","2",
            "0","0","c","0","f","f","e","e">>

OwnerC == <<"6","5","a","0","0","0","0","0","0","0","0","0","0","0","0","3",
            "0","0","d","e","c","a","d","e">>

Owners == {OwnerA, OwnerB, OwnerC}

Sales == <<"S","a","l","e","s">>

\* Database names of every shape: upper and lower case, digits, characters
\* the sanitizer replaces, alone and after 14 letters (15 or more characters)
NameChars == {"A", "b", "1", "_", "-"}

DatabaseNames ==
  LET short == UNION {[1..n -> NameChars] : n \in 1..MaxNameLen}
      pad   == [i \in 1..14 |-> "a"]
  IN  short \cup {pad \o s : s \in short}

\* Date.now() values.  TLC's integers have 32 bits, so the clock keeps seven
\* decimal digits: slice(-6) still cuts a leading digit off, and two of the
\* values agree in their last six digits.
Times == <<1123456, 1123457, 2123456>>

TableNames == {"Leads", "leads"}

ColumnTypes == {"string", "number", "boolean", "date"}

(* --------------------------------------------------------- the documents *)
\* tableSchema / columnSchema subdocuments.  kind "table" is a subdocument
\* the code pushed; "bare" and "null" are the array elements MongoDB creates
\* when $push addresses tables.<i>.columns past the end of the array.
NoId == -1

Table(id, name) == [kind |-> "table", id |-> id, name |-> name, columns |-> <<>>]

BareTable(cols) == [kind |-> "bare", id |-> NoId, name |-> "", columns |-> cols]

NullTable == [kind |-> "null", id |-> NoId, name |-> "", columns |-> <<>>]

Column(id, name, type, order) ==
  [id |-> id, name |-> name, type |-> type, order |-> order]

\* databaseSchema document; v is the version key __v
Database(id, owner, name, mongoDbName) ==
  [id |-> id, owner |-> owner, name |-> name, mongoDbName |-> mongoDbName,
   status |-> "active", tables |-> <<>>, v |-> 0]

NoDoc == [id |-> NoId, owner |-> <<>>, name |-> <<>>, mongoDbName |-> <<>>,
          status |-> "none", tables |-> <<>>, v |-> 0]

\* appSchema document: its owner, its screens and its version counter
App(id, owner, screens, version) ==
  [id |-> id, owner |-> owner, screens |-> screens, version |-> version]

NoApp == App(NoId, <<>>, <<>>, 0)

\* calculationSchema value: an id and its steps
NoCalculation == [id |-> "", steps |-> <<>>]

VARIABLES
  databases,   \* the Database collection: _id -> document
  colls,       \* physical containers: <<namespace, collection>> -> records,
               \* in insertion order
  sessions,    \* connections open on user namespaces: [by, ns]
  req,         \* the request each handler slot is serving
  now,         \* index into Times of the current Date.now()
  nextId,      \* next ObjectId to be generated
  hist,        \* history: what the stored state no longer shows
  apps         \* the App collection: _id -> document

vars == <<databases, colls, sessions, req, now, nextId, hist, apps>>

\* orders: the <<table _id, order>> pairs of the columns ever stored
NoHist == [orders |-> {}]

Reqs == {"r1", "r2"}

IdleReq ==
  [op |-> "none", pc |-> "idle", user |-> <<>>, dbId |-> NoId, name |-> "",
   tid |-> NoId, cid |-> NoId, doc |-> NoDoc, loaded |-> NoDoc,
   app |-> NoApp, calc |-> NoCalculation,
   body |-> <<>>, data |-> <<>>, rids |-> <<>>, filters |-> <<>>,
   query |-> <<>>, action |-> "",
   column |-> "",
   nOpen |-> 0, nClose |-> 0, err |-> "none", res |-> 0, out |-> <<>>]

InFlight(r) == req[r].pc \notin {"idle", "done"}

(* ------------------------------------------------- sequences of subdocs *)
\* MongooseDocumentArray.id(): the first subdocument with that _id, nulls skipped
IndexOfId(s, id) ==
  LET hits == {i \in DOMAIN s : s[i].id = id}
  IN  IF id = NoId \/ hits = {} THEN 0
      ELSE CHOOSE i \in hits : \A j \in hits : i <= j

RECURSIVE WithoutId(_, _)
\* $pull: { _id: { $in: [id] } } on an array of subdocuments
WithoutId(s, id) ==
  IF s = <<>> THEN <<>>
  ELSE IF s[1].id = id /\ id # NoId THEN WithoutId(Tail(s), id)
  ELSE <<s[1]>> \o WithoutId(Tail(s), id)

\* Array.prototype.pop on the local array
Popped(s) == IF s = <<>> THEN s ELSE SubSeq(s, 1, Len(s) - 1)


(* ------------------------------------------- what a save sends to MongoDB *)
\* Mongoose sends only the changes of the local document.  An array push or
\* pull is sent as $push / $pull with $inc: { __v: 1 } and no version in the
\* filter; Array#pop marks the whole array modified and is sent as
\* $set: { tables } with the version in the filter.  A change inside
\* tables[i] is addressed by position: tables.<i>.columns and
\* tables.<i>.updatedAt (timestamps: true of tableSchema).

\* How such a positional change is versioned depends on the Mongoose release
\* the program is built with: the version is in the filter or not (check),
\* and is incremented or not (inc).
NestedVersioning ==
  {[check |-> FALSE, inc |-> TRUE],
   [check |-> TRUE,  inc |-> FALSE],
   [check |-> TRUE,  inc |-> TRUE]}

Inc(mode) == IF mode.inc THEN 1 ELSE 0

\* $push: { tables: t }
PushTable(stored, t) == [stored EXCEPT !.tables = Append(@, t), !.v = @ + 1]

\* $pull: { tables: { _id: tid } }
PullTable(stored, tid) ==
  [stored EXCEPT !.tables = WithoutId(@, tid), !.v = @ + 1]

\* $set: { tables: <the local array> }
SetTables(stored, tables) == [stored EXCEPT !.tables = tables, !.v = @ + 1]

\* filter { _id, __v } of a versioned save
VersionMatches(stored, local) == stored.v = local.v

\* MongoDB refuses to create a field inside a null array element
CanPushColumn(stored, i) ==
  i > Len(stored.tables) \/ stored.tables[i].kind # "null"

\* $push: { "tables.<i>.columns": col }; past the end of the array MongoDB
\* pads it with nulls and creates the element
PushColumn(stored, i, col, mode) ==
  LET n == Len(stored.tables)
  IN  IF i <= n
      THEN [stored EXCEPT !.tables[i].columns = Append(@, col),
                          !.v = @ + Inc(mode)]
      ELSE [stored EXCEPT
              !.tables = @ \o [k \in 1..(i - n - 1) |-> NullTable]
                           \o <<BareTable(<<col>>)>>,
              !.v = @ + Inc(mode)]

\* $pull: { "tables.<i>.columns": { _id: cid } }; nothing to pull from when
\* the path does not exist
PullColumn(stored, i, cid, mode) ==
  IF i <= Len(stored.tables)
  THEN [stored EXCEPT !.tables[i].columns = WithoutId(@, cid),
                      !.v = @ + Inc(mode)]
  ELSE [stored EXCEPT !.v = @ + Inc(mode)]

\* Validation before a save: `name` is required in tableSchema, and every
\* subdocument of the loaded array is validated
Valid(doc) == \A i \in DOMAIN doc.tables : doc.tables[i].kind # "bare"

\* (a lookup by _id and status alone)
FindOneOfAnyOwner(dbId, user) ==
  IF dbId \in DOMAIN databases /\ databases[dbId].status = "active"
  THEN databases[dbId]
  ELSE NoDoc

\* Database.findOne({ _id, owner, status: 'active' })
FindOne(dbId, user) ==
  IF /\ dbId \in DOMAIN databases
     /\ databases[dbId].owner = user
     /\ databases[dbId].status = "active"
  THEN databases[dbId]
  ELSE NoDoc

\* What a handler still reads of its document once its saves are done: the
\* namespace of getUserConnection()
Handle(doc) == [NoDoc EXCEPT !.mongoDbName = doc.mongoDbName]

\* (one connection per namespace, handed to every request that asks for it)
ConnectionPerNamespace(r, doc) ==
  [by |-> CHOOSE q \in Reqs : TRUE, ns |-> doc.mongoDbName]

\* database.getUserConnection(): a new connection on the document's namespace
Connection(r, doc) == [by |-> r, ns |-> doc.mongoDbName]

Opened(rq) == [rq EXCEPT !.nOpen = @ + 1]

\* userConnection.close() in a finally block
Closed(rq) == [rq EXCEPT !.nClose = @ + 1]

\* res.status(...).json(...): what stays of the request is its response
Responded(rq, res, err) ==
  [IdleReq EXCEPT !.op = rq.op, !.pc = "done", !.res = res, !.err = err,
                  !.user = rq.user, !.dbId = rq.dbId,
                  !.nOpen = rq.nOpen, !.nClose = rq.nClose]

NewReq(op, user, dbId) ==
  [IdleReq EXCEPT !.op = op, !.user = user, !.dbId = dbId]

DbTargets == DOMAIN databases \cup {NoId}


(* ----------------------------------------------- POST /:id/tables (addTable) *)
Others == <<databases, colls, sessions, now, nextId, hist, apps>>

\* db.createCollection(name) of a collection that exists: the driver in use
\* sends the create command, which the server refuses (NamespaceExists), or
\* looks the name up first and hands back the collection it finds.  Which
\* one depends on the driver release the program is built with.
ExistingRefused(key) == IF key \in DOMAIN colls THEN BOOLEAN ELSE {FALSE}

\* (a rollback that saves again without popping the entry)
RolledBackNoPop(doc) == doc

\* catch block of addTable: this.tables.pop()
RolledBack(doc) == [doc EXCEPT !.tables = Popped(@)]

\* findOne, the duplicate-name check, then addTable up to its first save
AddTableFind(r, names, limit) ==
  /\ req[r].pc = "idle"
  /\ \E u \in Owners, d \in DbTargets :
       LET doc == FindOne(d, u)
           rq  == [NewReq("addTable", u, d) EXCEPT !.loaded = doc]
       IN  IF doc = NoDoc
           THEN /\ req' = [req EXCEPT ![r] = Responded(rq, 404, "NotFound")]
                /\ UNCHANGED nextId
           ELSE IF \E i \in DOMAIN doc.tables : doc.tables[i].kind = "null"
           THEN \* table.name of a null element throws
                /\ req' = [req EXCEPT ![r] = Responded(rq, 500, "TypeError")]
                /\ UNCHANGED nextId
           ELSE \E n \in names :
             IF \E i \in DOMAIN doc.tables : doc.tables[i].name = n
             THEN /\ req' = [req EXCEPT ![r] = Responded(rq, 400, "Conflict")]
                  /\ UNCHANGED nextId
             ELSE /\ nextId <= limit
                  /\ req' = [req EXCEPT ![r] =
                       [rq EXCEPT !.pc = "save", !.tid = nextId, !.name = n,
                          !.doc = [doc EXCEPT !.tables =
                                     Append(@, Table(nextId, n))]]]
                  /\ nextId' = nextId + 1
  /\ UNCHANGED <<databases, colls, sessions, now, hist, apps>>

\* await this.save() of the push; then getUserConnection()
AddTableSave(r) ==
  LET rq == req[r]
  IN  /\ rq.op = "addTable" /\ rq.pc = "save"
      /\ IF ~Valid(rq.doc)
         THEN /\ req' = [req EXCEPT ![r] = Responded(rq, 500, "ValidationError")]
              /\ UNCHANGED <<databases, sessions>>
         ELSE IF rq.dbId \notin DOMAIN databases
         THEN /\ req' = [req EXCEPT ![r] = Responded(rq, 500, "VersionError")]
              /\ UNCHANGED <<databases, sessions>>
         ELSE /\ databases' = [databases EXCEPT ![rq.dbId] =
                   PushTable(@, rq.doc.tables[Len(rq.doc.tables)])]
              /\ sessions' = sessions \cup {Connection(r, rq.doc)}
              /\ req' = [req EXCEPT ![r] =
                   Opened([rq EXCEPT !.pc = "connect", !.doc.v = @ + 1])]
      /\ UNCHANGED <<colls, now, nextId, hist, apps>>

\* the connection opens or fails
AddTableConnect(r) ==
  LET rq == req[r]
  IN  /\ rq.op = "addTable" /\ rq.pc = "connect"
      /\ \E ok \in BOOLEAN :
           req' = [req EXCEPT ![r] =
             IF ok THEN [rq EXCEPT !.pc = "create"]
             ELSE [rq EXCEPT !.pc = "rollback", !.err = "StorageError",
                             !.doc = RolledBack(@)]]
      /\ UNCHANGED Others

\* await db.createCollection(tableName)
AddTableCreate(r) ==
  LET rq  == req[r]
      key == <<rq.doc.mongoDbName, rq.name>>
  IN  /\ rq.op = "addTable" /\ rq.pc = "create"
      /\ \E ok \in BOOLEAN, refuse \in ExistingRefused(key) :
           IF ok /\ ~refuse
           THEN /\ colls' = colls @@ (key :> <<>>)
                /\ req' = [req EXCEPT ![r] = [rq EXCEPT !.pc = "close"]]
           ELSE \* the collection exists already, or storage fails
                /\ req' = [req EXCEPT ![r] =
                     [rq EXCEPT !.pc = "rollback",
                                !.err = IF ok THEN "NamespaceExists"
                                        ELSE "StorageError",
                                !.doc = RolledBack(@)]]
                /\ UNCHANGED colls
      /\ UNCHANGED <<databases, sessions, now, nextId, hist, apps>>

\* catch block: await this.save() of the popped array, then rethrow
AddTableRollback(r) ==
  LET rq == req[r]
  IN  /\ rq.op = "addTable" /\ rq.pc = "rollback"
      /\ IF rq.dbId \in DOMAIN databases
            /\ VersionMatches(databases[rq.dbId], rq.doc)
         THEN /\ databases' = [databases EXCEPT ![rq.dbId] =
                   SetTables(@, rq.doc.tables)]
              /\ req' = [req EXCEPT ![r] =
                   [rq EXCEPT !.pc = "close", !.doc.v = @ + 1]]
         ELSE \* the save throws in place of the storage error
              /\ req' = [req EXCEPT ![r] =
                   [rq EXCEPT !.pc = "close", !.err = "VersionError"]]
              /\ UNCHANGED databases
      /\ UNCHANGED <<colls, sessions, now, nextId, hist, apps>>

\* finally: await userConnection.close(); then the response
AddTableClose(r) ==
  LET rq == req[r]
  IN  /\ rq.op = "addTable" /\ rq.pc = "close"
      /\ sessions' = sessions \ {Connection(r, rq.doc)}
      /\ req' = [req EXCEPT ![r] =
           IF rq.err = "none"
           THEN Responded(Closed(rq), 201, "none")
           ELSE Responded(Closed(rq), 500, rq.err)]
      /\ UNCHANGED <<databases, colls, now, nextId, hist, apps>>


(* --------------------------- DELETE /:id/tables/:tableId (removeTable) *)
\* :tableId / :columnId of a request: an _id of the loaded array, or one
\* that names none of its subdocuments
MissingId == -2

TargetIds(subdocs) ==
  ({subdocs[i].id : i \in DOMAIN subdocs} \ {NoId}) \cup {MissingId}

RemoveTableFind(r) ==
  /\ req[r].pc = "idle"
  /\ \E u \in Owners, d \in DbTargets :
       LET doc == FindOne(d, u)
           rq  == NewReq("removeTable", u, d)
       IN  IF doc = NoDoc
           THEN req' = [req EXCEPT ![r] = Responded(rq, 404, "NotFound")]
           ELSE \E t \in TargetIds(doc.tables) :
             LET i == IndexOfId(doc.tables, t)
             IN  IF i = 0
                 THEN req' = [req EXCEPT ![r] = Responded(rq, 404, "NotFound")]
                 ELSE req' = [req EXCEPT ![r] =
                        [rq EXCEPT !.pc = "save", !.tid = t,
                           !.name = doc.tables[i].name,
                           !.doc = [doc EXCEPT !.tables = WithoutId(@, t)]]]
  /\ UNCHANGED Others

\* await this.save() of the pull; then getUserConnection()
RemoveTableSave(r) ==
  LET rq == req[r]
  IN  /\ rq.op = "removeTable" /\ rq.pc = "save"
      /\ IF ~Valid(rq.doc)
         THEN /\ req' = [req EXCEPT ![r] = Responded(rq, 500, "ValidationError")]
              /\ UNCHANGED <<databases, sessions>>
         ELSE IF rq.dbId \notin DOMAIN databases
         THEN /\ req' = [req EXCEPT ![r] = Responded(rq, 500, "VersionError")]
              /\ UNCHANGED <<databases, sessions>>
         ELSE /\ databases' = [databases EXCEPT ![rq.dbId] = PullTable(@, rq.tid)]
              /\ sessions' = sessions \cup {Connection(r, rq.doc)}
              /\ req' = [req EXCEPT ![r] =
                   Opened([rq EXCEPT !.pc = "connect", !.doc = Handle(@)])]
      /\ UNCHANGED <<colls, now, nextId, hist, apps>>

\* the connection opens, or fails and the catch block logs it
RemoveTableConnect(r) ==
  LET rq == req[r]
  IN  /\ rq.op = "removeTable" /\ rq.pc = "connect"
      /\ \E ok \in BOOLEAN :
           req' = [req EXCEPT ![r] = [rq EXCEPT !.pc = IF ok THEN "drop" ELSE "close"]]
      /\ UNCHANGED Others

\* await db.dropCollection(tableName); an error is logged and swallowed
RemoveTableDrop(r) ==
  LET rq  == req[r]
      key == <<rq.doc.mongoDbName, rq.name>>
  IN  /\ rq.op = "removeTable" /\ rq.pc = "drop"
      /\ \E ok \in BOOLEAN :
           colls' = IF ok THEN [k \in DOMAIN colls \ {key} |-> colls[k]] ELSE colls
      /\ req' = [req EXCEPT ![r] = [rq EXCEPT !.pc = "close"]]
      /\ UNCHANGED <<databases, sessions, now, nextId, hist, apps>>

RemoveTableClose(r) ==
  LET rq == req[r]
  IN  /\ rq.op = "removeTable" /\ rq.pc = "close"
      /\ sessions' = sessions \ {Connection(r, rq.doc)}
      /\ req' = [req EXCEPT ![r] = Responded(Closed(rq), 200, "none")]
      /\ UNCHANGED <<databases, colls, now, nextId, hist, apps>>

(* ----------------------- POST /:id/tables/:tableId/columns (addColumn) *)
Max(S) == CHOOSE x \in S : \A y \in S : y <= x

\* (the number of columns taken for the next order)
NextOrderByCount(columns) == Len(columns)

\* (an empty table taken to have maxOrder 0)
NextOrderFromZero(columns) ==
  LET maxOrder == IF Len(columns) > 0
                  THEN Max({columns[i].order : i \in DOMAIN columns})
                  ELSE 0
  IN  maxOrder + 1

\* maxOrder + 1 of addColumn
NextOrder(columns) ==
  LET maxOrder == IF Len(columns) > 0
                  THEN Max({columns[i].order : i \in DOMAIN columns})
                  ELSE -1
  IN  maxOrder + 1

\* findOne, the duplicate-name check, then addColumn up to its save
AddColumnFind(r, names, types, limit) ==
  /\ req[r].pc = "idle"
  /\ \E u \in Owners, d \in DbTargets :
       LET doc == FindOne(d, u)
           rq  == NewReq("addColumn", u, d)
       IN  IF doc = NoDoc
           THEN /\ req' = [req EXCEPT ![r] = Responded(rq, 404, "NotFound")]
                /\ UNCHANGED nextId
           ELSE \E t \in TargetIds(doc.tables) :
             LET i == IndexOfId(doc.tables, t)
             IN  IF i = 0
                 THEN /\ req' = [req EXCEPT ![r] = Responded(rq, 404, "NotFound")]
                      /\ UNCHANGED nextId
                 ELSE \E n \in names, ty \in types :
                   IF \E j \in DOMAIN doc.tables[i].columns :
                        doc.tables[i].columns[j].name = n
                   THEN /\ req' = [req EXCEPT ![r] = Responded(rq, 400, "Conflict")]
                        /\ UNCHANGED nextId
                   ELSE /\ nextId <= limit
                        /\ req' = [req EXCEPT ![r] =
                             [rq EXCEPT !.pc = "save", !.tid = t, !.cid = nextId,
                                !.name = n,
                                !.doc = [doc EXCEPT !.tables[i].columns = Append(@,
                                   Column(nextId, n, ty,
                                          NextOrder(doc.tables[i].columns)))]]]
                        /\ nextId' = nextId + 1
  /\ UNCHANGED <<databases, colls, sessions, now, hist, apps>>

\* await this.save() of the push into tables.<i>.columns
AddColumnSave(r) ==
  LET rq  == req[r]
      i   == IndexOfId(rq.doc.tables, rq.tid)
      col == rq.doc.tables[i].columns[Len(rq.doc.tables[i].columns)]
  IN  /\ rq.op = "addColumn" /\ rq.pc = "save"
      /\ IF ~Valid(rq.doc)
         THEN /\ req' = [req EXCEPT ![r] = Responded(rq, 500, "ValidationError")]
              /\ UNCHANGED <<databases, hist>>
         ELSE \E mode \in NestedVersioning :
           IF \/ rq.dbId \notin DOMAIN databases
              \/ mode.check /\ ~VersionMatches(databases[rq.dbId], rq.doc)
           THEN /\ req' = [req EXCEPT ![r] = Responded(rq, 500, "VersionError")]
                /\ UNCHANGED <<databases, hist>>
           ELSE IF ~CanPushColumn(databases[rq.dbId], i)
           THEN /\ req' = [req EXCEPT ![r] = Responded(rq, 500, "StorageError")]
                /\ UNCHANGED <<databases, hist>>
           ELSE /\ databases' = [databases EXCEPT ![rq.dbId] =
                     PushColumn(@, i, col, mode)]
                /\ hist' = [hist EXCEPT !.orders =
                     @ \cup {<<databases'[rq.dbId].tables[i].id, col.order>>}]
                /\ req' = [req EXCEPT ![r] = Responded(rq, 201, "none")]
      /\ UNCHANGED <<colls, sessions, now, nextId, apps>>

(* ------- DELETE /:id/tables/:tableId/columns/:columnId (removeColumn) *)
\* (an update that strips nothing)
UnsetNothing(rec, field) == rec

\* $unset: { [columnName]: "" } on one record
Unset(rec, field) ==
  [rec EXCEPT !.f = [k \in DOMAIN rec.f \ {field} |-> rec.f[k]]]

RemoveColumnFind(r) ==
  /\ req[r].pc = "idle"
  /\ \E u \in Owners, d \in DbTargets :
       LET doc == FindOne(d, u)
           rq  == NewReq("removeColumn", u, d)
       IN  IF doc = NoDoc
           THEN req' = [req EXCEPT ![r] = Responded(rq, 404, "NotFound")]
           ELSE \E t \in TargetIds(doc.tables) :
             LET i == IndexOfId(doc.tables, t)
             IN  IF i = 0
                 THEN req' = [req EXCEPT ![r] = Responded(rq, 404, "NotFound")]
                 ELSE \E c \in TargetIds(doc.tables[i].columns) :
                   LET j == IndexOfId(doc.tables[i].columns, c)
                   IN  IF j = 0
                       THEN req' = [req EXCEPT ![r] = Responded(rq, 404, "NotFound")]
                       ELSE req' = [req EXCEPT ![r] =
                              [rq EXCEPT !.pc = "save", !.tid = t, !.cid = c,
                                 !.name = doc.tables[i].columns[j].name,
                                 !.doc = [doc EXCEPT !.tables[i].columns =
                                            WithoutId(@, c)]]]
  /\ UNCHANGED Others

\* await this.save() of the pull from tables.<i>.columns; getUserConnection()
RemoveColumnSave(r) ==
  LET rq == req[r]
      i  == IndexOfId(rq.doc.tables, rq.tid)
  IN  /\ rq.op = "removeColumn" /\ rq.pc = "save"
      /\ IF ~Valid(rq.doc)
         THEN /\ req' = [req EXCEPT ![r] = Responded(rq, 500, "ValidationError")]
              /\ UNCHANGED <<databases, sessions>>
         ELSE \E mode \in NestedVersioning :
           IF \/ rq.dbId \notin DOMAIN databases
              \/ mode.check /\ ~VersionMatches(databases[rq.dbId], rq.doc)
           THEN /\ req' = [req EXCEPT ![r] = Responded(rq, 500, "VersionError")]
                /\ UNCHANGED <<databases, sessions>>
           ELSE /\ databases' = [databases EXCEPT ![rq.dbId] =
                     PullColumn(@, i, rq.cid, mode)]
                /\ sessions' = sessions \cup {Connection(r, rq.doc)}
                /\ req' = [req EXCEPT ![r] =
                     Opened([rq EXCEPT !.pc = "connect",
                               !.doc = [Handle(@) EXCEPT !.tables =
                                          <<Table(rq.tid, rq.doc.tables[i].name)>>]])]
      /\ UNCHANGED <<colls, now, nextId, hist, apps>>

\* the connection opens, or fails: the catch block logs the error, which
\* err keeps until the response
RemoveColumnConnect(r) ==
  LET rq == req[r]
  IN  /\ rq.op = "removeColumn" /\ rq.pc = "connect"
      /\ \E ok \in BOOLEAN :
           req' = [req EXCEPT ![r] =
             IF ok THEN [rq EXCEPT !.pc = "strip"]
             ELSE [rq EXCEPT !.pc = "close", !.err = "StorageError"]]
      /\ UNCHANGED Others

\* await collection.updateMany({}, { $unset }); an error is logged and swallowed
RemoveColumnStrip(r) ==
  LET rq  == req[r]
      i   == IndexOfId(rq.doc.tables, rq.tid)
      key == <<rq.doc.mongoDbName, rq.doc.tables[i].name>>
  IN  /\ rq.op = "removeColumn" /\ rq.pc = "strip"
      /\ \E ok \in BOOLEAN :
           /\ colls' = IF ok /\ key \in DOMAIN colls
                       THEN [colls EXCEPT ![key] =
                               [k \in DOMAIN @ |-> Unset(@[k], rq.name)]]
                       ELSE colls
           /\ req' = [req EXCEPT ![r] =
                [rq EXCEPT !.pc = "close",
                           !.err = IF ok THEN "none" ELSE "StorageError"]]
      /\ UNCHANGED <<databases, sessions, now, nextId, hist, apps>>

RemoveColumnClose(r) ==
  LET rq == req[r]
  IN  /\ rq.op = "removeColumn" /\ rq.pc = "close"
      /\ sessions' = sessions \ {Connection(r, rq.doc)}
      /\ req' = [req EXCEPT ![r] = Responded(Closed(rq), 200, "none")]
      /\ UNCHANGED <<databases, colls, now, nextId, hist, apps>>

(* ------------------------------------- POST / (createUserDatabase) *)
\* (no unique index on mongoDbName)
IndexesAllowAnyNamespace(doc) ==
  \A d \in DOMAIN databases :
    ~(databases[d].owner = doc.owner /\ databases[d].name = doc.name)

\* The unique indexes of databaseSchema: { owner, name } and { mongoDbName }
IndexesAllow(doc) ==
  \A d \in DOMAIN databases :
    /\ ~(databases[d].owner = doc.owner /\ databases[d].name = doc.name)
    /\ databases[d].mongoDbName # doc.mongoDbName

\* findOne({ name, owner, status: 'active' }), then createUserDatabase up to
\* its save: the document is built and named at the current Date.now()
CreateFind(r, names, limit) ==
  /\ req[r].pc = "idle"
  /\ \E u \in Owners, n \in names :
       LET rq == NewReq("create", u, NoId)
       IN  IF \E d \in DOMAIN databases :
                /\ databases[d].name = n
                /\ databases[d].owner = u
                /\ databases[d].status = "active"
           THEN /\ req' = [req EXCEPT ![r] =
                     [Responded(rq, 400, "Conflict") EXCEPT
                        !.doc = Database(NoId, u, n, <<>>)]]
                /\ UNCHANGED nextId
           ELSE /\ nextId <= limit
                /\ req' = [req EXCEPT ![r] =
                     [rq EXCEPT !.pc = "save", !.dbId = nextId,
                        !.doc = Database(nextId, u, n,
                                  generateMongoDbName(u, n, Times[now]))]]
                /\ nextId' = nextId + 1
  /\ UNCHANGED <<databases, colls, sessions, now, hist, apps>>

\* await database.save(): the insert; then getUserConnection()
CreateSave(r) ==
  LET rq == req[r]
  IN  /\ rq.op = "create" /\ rq.pc = "save"
      /\ IF IndexesAllow(rq.doc)
         THEN /\ databases' = databases @@ (rq.dbId :> rq.doc)
              /\ sessions' = sessions \cup {Connection(r, rq.doc)}
              /\ req' = [req EXCEPT ![r] = Opened([rq EXCEPT !.pc = "connect"])]
         ELSE \* E11000, rethrown by createUserDatabase
              /\ req' = [req EXCEPT ![r] =
                   [Responded(rq, 500, "DuplicateKey") EXCEPT !.doc = rq.doc]]
              /\ UNCHANGED <<databases, sessions>>
      /\ UNCHANGED <<colls, now, nextId, hist, apps>>

CreateConnect(r) ==
  LET rq == req[r]
  IN  /\ rq.op = "create" /\ rq.pc = "connect"
      /\ \E ok \in BOOLEAN :
           req' = [req EXCEPT ![r] =
             IF ok THEN [rq EXCEPT !.pc = "probe"]
             ELSE [rq EXCEPT !.pc = "close", !.err = "StorageError"]]
      /\ UNCHANGED Others

\* await db.createCollection('_init')
CreateProbe(r) ==
  LET rq  == req[r]
      key == <<rq.doc.mongoDbName, "_init">>
  IN  /\ rq.op = "create" /\ rq.pc = "probe"
      /\ \E ok \in BOOLEAN, refuse \in ExistingRefused(key) :
           IF ok /\ ~refuse
           THEN /\ colls' = colls @@ (key :> <<>>)
                /\ req' = [req EXCEPT ![r] = [rq EXCEPT !.pc = "probeDrop"]]
           ELSE /\ req' = [req EXCEPT ![r] =
                     [rq EXCEPT !.pc = "close",
                                !.err = IF ok THEN "NamespaceExists"
                                        ELSE "StorageError"]]
                /\ UNCHANGED colls
      /\ UNCHANGED <<databases, sessions, now, nextId, hist, apps>>

\* await db.dropCollection('_init')
CreateProbeDrop(r) ==
  LET rq  == req[r]
      key == <<rq.doc.mongoDbName, "_init">>
  IN  /\ rq.op = "create" /\ rq.pc = "probeDrop"
      /\ \E ok \in BOOLEAN :
           IF ok /\ key \in DOMAIN colls
           THEN /\ colls' = [k \in DOMAIN colls \ {key} |-> colls[k]]
                /\ req' = [req EXCEPT ![r] = [rq EXCEPT !.pc = "close"]]
           ELSE /\ req' = [req EXCEPT ![r] =
                     [rq EXCEPT !.pc = "close", !.err = "StorageError"]]
                /\ UNCHANGED colls
      /\ UNCHANGED <<databases, sessions, now, nextId, hist, apps>>

CreateClose(r) ==
  LET rq == req[r]
  IN  /\ rq.op = "create" /\ rq.pc = "close"
      /\ sessions' = sessions \ {Connection(r, rq.doc)}
      /\ req' = [req EXCEPT ![r] =
           [Responded(Closed(rq), IF rq.err = "none" THEN 201 ELSE 500, rq.err)
              EXCEPT !.doc = rq.doc]]
      /\ UNCHANGED <<databases, colls, now, nextId, hist, apps>>

(* ------------------------------- DELETE /:id (deleteUserDatabase) *)
\* findOne({ _id, owner }); then getUserConnection()
DestroyFind(r) ==
  /\ req[r].pc = "idle"
  /\ \E u \in Owners, d \in DbTargets :
       LET rq == NewReq("destroy", u, d)
       IN  IF d \in DOMAIN databases /\ databases[d].owner = u
           THEN /\ req' = [req EXCEPT ![r] =
                     Opened([rq EXCEPT !.pc = "drop", !.doc = databases[d]])]
                /\ sessions' = sessions \cup {Connection(r, databases[d])}
           ELSE /\ req' = [req EXCEPT ![r] = Responded(rq, 404, "NotFound")]
                /\ UNCHANGED sessions
  /\ UNCHANGED <<databases, colls, now, nextId, hist, apps>>

\* await userConnection.dropDatabase(); an error is logged and swallowed
DestroyDrop(r) ==
  LET rq == req[r]
  IN  /\ rq.op = "destroy" /\ rq.pc = "drop"
      /\ \E ok \in BOOLEAN :
           colls' = IF ok
                    THEN [k \in {k \in DOMAIN colls : k[1] # rq.doc.mongoDbName}
                            |-> colls[k]]
                    ELSE colls
      /\ req' = [req EXCEPT ![r] = [rq EXCEPT !.pc = "close"]]
      /\ UNCHANGED <<databases, sessions, now, nextId, hist, apps>>

DestroyClose(r) ==
  LET rq == req[r]
  IN  /\ rq.op = "destroy" /\ rq.pc = "close"
      /\ sessions' = sessions \ {Connection(r, rq.doc)}
      /\ req' = [req EXCEPT ![r] = Closed([rq EXCEPT !.pc = "delete"])]
      /\ UNCHANGED <<databases, colls, now, nextId, hist, apps>>

\* await this.findByIdAndDelete(databaseId)
DestroyDelete(r) ==
  LET rq == req[r]
  IN  /\ rq.op = "destroy" /\ rq.pc = "delete"
      /\ databases' = [d \in DOMAIN databases \ {rq.dbId} |-> databases[d]]
      /\ req' = [req EXCEPT ![r] = Responded(rq, 200, "none")]
      /\ UNCHANGED <<colls, sessions, now, nextId, hist, apps>>

\* Date.now() moves on
Tick ==
  /\ now < Len(Times)
  /\ now' = now + 1
  /\ UNCHANGED <<databases, colls, sessions, req, nextId, hist, apps>>

(* --------------------------------------------------- JavaScript values *)
\* The values of a JSON body and of a stored record: the type tag t and,
\* by type, the boolean b, the number n (of a date: its milliseconds) or the
\* string s, a sequence of characters.
Undefined == [t |-> "undefined", b |-> FALSE, n |-> 0, s |-> <<>>]

Null == [t |-> "null", b |-> FALSE, n |-> 0, s |-> <<>>]

NaN == [t |-> "NaN", b |-> FALSE, n |-> 0, s |-> <<>>]

InvalidDate == [t |-> "InvalidDate", b |-> FALSE, n |-> 0, s |-> <<>>]

Bool(b) == [t |-> "boolean", b |-> b, n |-> 0, s |-> <<>>]

Num(n) == [t |-> "number", b |-> FALSE, n |-> n, s |-> <<>>]

Str(s) == [t |-> "string", b |-> FALSE, n |-> 0, s |-> s]

DateOf(ms) == [t |-> "date", b |-> FALSE, n |-> ms, s |-> <<>>]

IsDigits(s) == s # <<>> /\ Range(s) \subseteq Range(Digits)

DigitValue(c) == CHOOSE n \in 0..9 : Digits[n + 1] = c

RECURSIVE digitsToNumber(_)
digitsToNumber(s) ==
  IF s = <<>> THEN 0
  ELSE 10 * digitsToNumber(SubSeq(s, 1, Len(s) - 1)) + DigitValue(s[Len(s)])

\* the longest prefix of s made of digits
RECURSIVE digitPrefix(_)
digitPrefix(s) ==
  IF s = <<>> \/ s[1] \notin Range(Digits) THEN <<>>
  ELSE <<s[1]>> \o digitPrefix(Tail(s))

\* String(n) of an integer
numberString(n) ==
  IF n < 0 THEN <<"-">> \o numberToString(-n) ELSE numberToString(n)

\* parseFloat(value): the number at the head of String(value)
parseFloat(value) ==
  CASE value.t = "number"  -> value
    [] value.t = "string"  ->
         IF digitPrefix(value.s) # <<>>
         THEN Num(digitsToNumber(digitPrefix(value.s)))
         ELSE IF value.s # <<>> /\ value.s[1] = "-" /\ digitPrefix(Tail(value.s)) # <<>>
              THEN Num(-digitsToNumber(digitPrefix(Tail(value.s))))
         ELSE NaN
    [] OTHER               -> NaN

\* (Number that reads the number at the head of a string, as parseFloat)
NumberByPrefix(value) ==
  IF value.t \in {"number", "string"} THEN parseFloat(value)
  ELSE IF value.t = "boolean" THEN Num(IF value.b THEN 1 ELSE 0)
  ELSE IF value.t = "null" THEN Num(0)
  ELSE NaN

\* Number(value), for strings of digits, letters and a leading sign
ToNumber(value) ==
  CASE value.t = "number"    -> value
    [] value.t = "boolean"   -> Num(IF value.b THEN 1 ELSE 0)
    [] value.t = "null"      -> Num(0)
    [] value.t = "string"    ->
         IF value.s = <<>> THEN Num(0)
         ELSE IF IsDigits(value.s) THEN Num(digitsToNumber(value.s))
         ELSE IF value.s[1] = "-" /\ IsDigits(Tail(value.s))
              THEN Num(-digitsToNumber(Tail(value.s)))
         ELSE NaN
    [] OTHER                 -> NaN

\* Boolean(value)
ToBoolean(value) ==
  ~ \/ value.t \in {"undefined", "null", "NaN"}
    \/ value.t = "boolean" /\ ~value.b
    \/ value.t = "number" /\ value.n = 0
    \/ value.t = "string" /\ value.s = <<>>

\* String(value)
StringOf(value) ==
  CASE value.t = "string"    -> value.s
    [] value.t = "number"    -> numberString(value.n)
    [] value.t = "boolean"   ->
         IF value.b THEN <<"t","r","u","e">> ELSE <<"f","a","l","s","e">>
    [] value.t = "null"      -> <<"n","u","l","l">>
    [] value.t = "NaN"       -> <<"N","a","N">>
    [] OTHER                 -> <<"u","n","d","e","f","i","n","e","d">>

\* new Date(value), for strings that are not date strings
NewDate(value) ==
  CASE value.t = "number"    -> DateOf(value.n)
    [] value.t = "boolean"   -> DateOf(IF value.b THEN 1 ELSE 0)
    [] value.t = "null"      -> DateOf(0)
    [] value.t = "date"      -> value
    [] OTHER                 -> InvalidDate

\* (the value of the body, stored as it came)
validateFieldValueAsIs(value, type, clock) == value

\* validateFieldValue(value, type); clock is Date.now()
validateFieldValue(value, type, clock) ==
  CASE type = "number"  ->
         LET num == ToNumber(value) IN IF num.t = "NaN" THEN Num(0) ELSE num
    [] type = "boolean" -> Bool(ToBoolean(value))
    [] type = "date"    ->
         LET date == NewDate(value)
         IN  IF date.t = "InvalidDate" THEN DateOf(clock) ELSE date
    [] OTHER            ->
         Str(StringOf(IF ToBoolean(value) THEN value ELSE Str(<<>>)))

\* (no defaults: an absent field is stored as null)
getDefaultNull(type, clock) == Null

getDefaultValue(type, clock) ==
  CASE type = "number"  -> Num(0)
    [] type = "boolean" -> Bool(FALSE)
    [] type = "date"    -> DateOf(clock)
    [] OTHER            -> Str(<<>>)

(* ------------------------------------------------ filters and matching *)
\* A filter of a query body: column and operator are '' when missing, value
\* is Undefined when missing
Filter(column, operator, value) ==
  [column |-> column, operator |-> operator, value |-> value]

Operators ==
  {"equals", "not_equals", "greater_than", "less_than", "greater_equal",
   "less_equal", "contains"}

convertFilterValue(value, type) ==
  CASE type = "number"  ->
         LET num == parseFloat(value) IN IF num.t = "NaN" THEN Num(0) ELSE num
    [] type = "boolean" ->
         IF value.t = "boolean" THEN value
         ELSE Bool(\/ value.t = "string" /\ value.s \in {<<"t","r","u","e">>, <<"1">>}
                   \/ value.t = "number" /\ value.n = 1)
    [] type = "date"    -> NewDate(value)
    [] OTHER            -> Str(StringOf(value))

\* the type of the column definition with that name, 'string' without one
columnType(column, tableColumns) ==
  LET hits == {i \in DOMAIN tableColumns : tableColumns[i].name = column}
  IN  IF hits = {} THEN "string"
      ELSE tableColumns[CHOOSE i \in hits : \A j \in hits : i <= j].type

\* (a skip test that also skips the values that are falsy)
IncompleteOrFalsy(filter) ==
  \/ filter.column = ""
  \/ filter.operator = ""
  \/ ~ToBoolean(filter.value)

\* (a skip test that reads the logic field: the filters joined by OR are left out)
IncompleteOrJoinedByOr(filter) ==
  \/ filter.column = ""
  \/ filter.operator = ""
  \/ filter.value.t = "undefined"
  \/ filter.logic = "OR"

\* !filter.column || !filter.operator || filter.value === undefined
Incomplete(filter) ==
  \/ filter.column = ""
  \/ filter.operator = ""
  \/ filter.value.t = "undefined"

\* buildMongoQuery: the conditions of the filters that are complete and whose
\* operator buildMongoCondition knows.  No condition is {}, one condition is
\* that condition, several are { $and: conditions }.
RECURSIVE buildMongoQuery(_, _)
buildMongoQuery(filters, tableColumns) ==
  IF filters = <<>> THEN <<>>
  ELSE LET filter == filters[1]
           rest   == buildMongoQuery(Tail(filters), tableColumns)
       IN  IF Incomplete(filter) \/ filter.operator \notin Operators
           THEN rest
           ELSE <<Filter(filter.column, filter.operator,
                         convertFilterValue(filter.value,
                           columnType(filter.column, tableColumns)))>> \o rest

\* The driver writes an Invalid Date as the date 0
Bson(value) == IF value.t = "InvalidDate" THEN DateOf(0) ELSE value

\* the order of the characters the inputs use
CharCode(c) ==
  LET chars == <<"*", "-", ".">> \o Digits \o UpperLetters \o <<"_">>
                 \o LowerLetters
  IN  CHOOSE i \in DOMAIN chars : chars[i] = c

RECURSIVE StringLess(_, _)
StringLess(a, b) ==
  IF b = <<>> THEN FALSE
  ELSE IF a = <<>> THEN TRUE
  ELSE IF a[1] # b[1] THEN CharCode(a[1]) < CharCode(b[1])
  ELSE StringLess(Tail(a), Tail(b))

\* a < b for two values of one BSON type
BsonLess(a, b) ==
  CASE a.t = "string"  -> StringLess(a.s, b.s)
    [] a.t = "boolean" -> ~a.b /\ b.b
    [] OTHER           -> a.n < b.n

\* { $regex: pattern, $options: 'i' } for a pattern of letters, digits, "."
\* (any character) and "*" (the item before it, any number of times).
\* One item of the pattern against one character:
CharMatches(c, item) == item = "." \/ LowerChar(c) = LowerChar(item)

\* the pattern matches s from its first character on
RECURSIVE MatchHere(_, _)
MatchHere(s, pattern) ==
  IF pattern = <<>> THEN TRUE
  ELSE IF Len(pattern) >= 2 /\ pattern[2] = "*"
       THEN \/ MatchHere(s, SubSeq(pattern, 3, Len(pattern)))
            \/ /\ s # <<>>
               /\ CharMatches(s[1], pattern[1])
               /\ MatchHere(Tail(s), pattern)
  ELSE /\ s # <<>>
       /\ CharMatches(s[1], pattern[1])
       /\ MatchHere(Tail(s), Tail(pattern))

\* a regular expression is searched for: it may match from any position
RegexMatches(s, pattern) ==
  \E i \in 0..Len(s) : MatchHere(SubSeq(s, i + 1, Len(s)), pattern)

\* a "*" with no item before it is no regular expression
RegexInvalid(pattern) == pattern # <<>> /\ pattern[1] = "*"

\* MongoDB refuses a $regex that is not a string or no regular expression
QueryFails(query) ==
  \E i \in DOMAIN query :
    /\ query[i].operator = "contains"
    /\ \/ query[i].value.t # "string"
       \/ RegexInvalid(query[i].value.s)

\* does the record match the condition of buildMongoCondition
MatchesCondition(rec, cond) ==
  LET has   == cond.column \in DOMAIN rec.f
      field == rec.f[cond.column]
      value == Bson(cond.value)
      same  == has /\ field.t = value.t
  IN  CASE cond.operator = "equals"        -> same /\ field = value
        [] cond.operator = "not_equals"    -> ~(same /\ field = value)
        [] cond.operator = "greater_than"  -> same /\ BsonLess(value, field)
        [] cond.operator = "less_than"     -> same /\ BsonLess(field, value)
        [] cond.operator = "greater_equal" -> same /\ ~BsonLess(field, value)
        [] cond.operator = "less_equal"    -> same /\ ~BsonLess(value, field)
        [] cond.operator = "contains"      ->
             has /\ field.t = "string" /\ RegexMatches(field.s, value.s)
        [] OTHER                           -> FALSE

\* (the conditions joined by $or)
MatchesAny(rec, query) == \E i \in DOMAIN query : MatchesCondition(rec, query[i])

Matches(rec, query) == \A i \in DOMAIN query : MatchesCondition(rec, query[i])

RECURSIVE Select(_, _)
\* the records of a container that match, in their stored order
Select(records, query) ==
  IF records = <<>> THEN <<>>
  ELSE IF Matches(records[1], query)
       THEN <<records[1]>> \o Select(Tail(records), query)
       ELSE Select(Tail(records), query)

\* (no projection: the whole record)
ProjectWhole(rec, column) == rec.f

\* projection { [column]: 1 } then { [column]: doc[column] }
Project(rec, column) ==
  [k \in DOMAIN rec.f \cap {column} |-> rec.f[k]]

\* the records of a container; none when the container does not exist
Records(key) == IF key \in DOMAIN colls THEN colls[key] ELSE <<>>

(* ------------------------------------------------------- record routes *)
\* :recordId / recordIds of a request: ids of records of the container, one
\* that names no record, and one that is no ObjectId string
InvalidId == NoId

RecordIds(key) ==
  {Records(key)[i].id : i \in DOMAIN Records(key)} \cup {MissingId, InvalidId}

\* the ids of a set as an array, in increasing order
RECURSIVE SortedSeq(_)
SortedSeq(ids) ==
  IF ids = {} THEN <<>>
  ELSE LET least == CHOOSE a \in ids : \A b \in ids : a <= b
       IN  <<least>> \o SortedSeq(ids \ {least})

\* the recordIds arrays tried: each id alone, the id of a record twice, and
\* all ObjectId strings together
IdLists(ids) ==
  {<<id>> : id \in ids}
    \cup {<<id, id>> : id \in ids \ {InvalidId, MissingId}}
    \cup {SortedSeq(ids \ {InvalidId})}

\* recordData of POST records: every column of the table, from the body or
\* by default
recordData(body, columns, clock) ==
  [name \in {columns[i].name : i \in DOMAIN columns} |->
     LET type == columnType(name, columns)
     IN  IF name \in DOMAIN body
         THEN validateFieldValue(body[name], type, clock)
         ELSE getDefaultValue(type, clock)]

\* updateData of PUT record: the fields of the body that name a column
updateData(body, columns, clock) ==
  [name \in {n \in DOMAIN body : \E i \in DOMAIN columns : columns[i].name = n} |->
     validateFieldValue(body[name], columnType(name, columns), clock)]

\* The body of a request: the record bodies, filter lists, actions and
\* columns it is drawn from
Inputs(bodies, filterLists, actions, columns) ==
  [bodies |-> bodies, filterLists |-> filterLists, actions |-> actions,
   columns |-> columns]

NoInputs == Inputs({}, {}, {}, {})

\* What a record route computes between tables.id() and getUserConnection()
Prepared(rq, doc, table, in) ==
  LET ids == RecordIds(<<doc.mongoDbName, table.name>>)
  IN  CASE rq.op = "insert" ->
             {[rq EXCEPT !.data = recordData(body, table.columns, Times[now]),
                         !.body = body, !.cid = nextId] : body \in in.bodies}
        [] rq.op = "update" ->
             {[rq EXCEPT !.data = updateData(body, table.columns, Times[now]),
                         !.body = body, !.cid = id] :
                body \in in.bodies, id \in ids}
        [] rq.op = "deleteMany" ->
             {[rq EXCEPT !.rids = list] : list \in IdLists(ids)}
        [] rq.op = "query" ->
             {[rq EXCEPT !.query = buildMongoQuery(filters, table.columns),
                         !.filters = filters,
                         !.action = action, !.column = column] :
                filters \in in.filterLists, action \in in.actions,
                column \in in.columns}
        [] OTHER -> {rq}

\* The five record routes start alike: findOne, tables.id(tableId), the
\* preparation of the route, getUserConnection().  newIds is 1 when the route
\* generates an ObjectId.
RecordFind(r, op, in, newIds) ==
  /\ req[r].pc = "idle"
  /\ \E u \in Owners, d \in DbTargets :
       LET doc == FindOne(d, u)
           rq  == NewReq(op, u, d)
       IN  IF doc = NoDoc
           THEN /\ req' = [req EXCEPT ![r] = Responded(rq, 404, "NotFound")]
                /\ UNCHANGED <<sessions, nextId>>
           ELSE \E t \in TargetIds(doc.tables) :
             LET i == IndexOfId(doc.tables, t)
             IN  IF i = 0
                 THEN /\ req' = [req EXCEPT ![r] = Responded(rq, 404, "NotFound")]
                      /\ UNCHANGED <<sessions, nextId>>
                 ELSE /\ sessions' = sessions \cup {Connection(r, doc)}
                      /\ \E prepared \in Prepared(rq, doc, doc.tables[i], in) :
                           /\ req' = [req EXCEPT ![r] =
                                Opened([prepared EXCEPT
                                  !.pc = "connect", !.tid = t,
                                  !.name = doc.tables[i].name,
                                  !.doc = Handle(doc)])]
                           /\ nextId' = nextId + newIds
  /\ UNCHANGED <<databases, colls, now, hist, apps>>

\* await of the connection: it opens, or the route leaves through finally
RecordConnect(r, op, pc) ==
  LET rq == req[r]
  IN  /\ rq.op = op /\ rq.pc = "connect"
      /\ \E ok \in BOOLEAN :
           req' = [req EXCEPT ![r] =
             IF ok THEN [rq EXCEPT !.pc = pc]
             ELSE [rq EXCEPT !.pc = "close", !.err = "StorageError"]]
      /\ UNCHANGED Others

\* finally: await userConnection.close().  The response was sent before it,
\* or is the 500 of the catch block after it.
RecordClose(r, op) ==
  LET rq == req[r]
  IN  /\ rq.op = op /\ rq.pc = "close"
      /\ sessions' = sessions \ {Connection(r, rq.doc)}
      /\ req' = [req EXCEPT ![r] =
           [Responded(Closed(rq), IF rq.err = "none" THEN rq.res ELSE 500, rq.err)
              EXCEPT !.out = rq.out]]
      /\ UNCHANGED <<databases, colls, now, nextId, hist, apps>>

Failed(rq) == [rq EXCEPT !.pc = "close", !.err = "StorageError"]

Key(rq) == <<rq.doc.mongoDbName, rq.name>>

\* the record with that _id in a sequence of records, as a sequence
WithId(records, id) == SelectSeq(records, LAMBDA rec : rec.id = id)

\* (a handle that creates the container it names)
collectionCreated(key) ==
  IF key \in DOMAIN colls THEN colls ELSE (key :> <<>>) @@ colls

\* db.collection(name): a handle on the container; MongoDB creates no
\* container for it
collection(key) == colls

(* GET /:id/tables/:tableId/records *)
ListFind(r) == RecordFind(r, "list", NoInputs, 0)

ListConnect(r) == RecordConnect(r, "list", "find")

\* await collection.find({}).toArray()
ListRead(r) ==
  LET rq == req[r]
  IN  /\ rq.op = "list" /\ rq.pc = "find"
      /\ \E ok \in BOOLEAN :
           req' = [req EXCEPT ![r] =
             IF ok THEN [rq EXCEPT !.pc = "close", !.res = 200,
                                   !.out = Records(Key(rq))]
             ELSE Failed(rq)]
      /\ colls' = collection(Key(rq))
      /\ UNCHANGED <<databases, sessions, now, nextId, hist, apps>>

ListClose(r) == RecordClose(r, "list")

(* POST /:id/tables/:tableId/records *)
InsertFind(r, bodies, limit) ==
  /\ nextId <= limit
  /\ RecordFind(r, "insert", Inputs(bodies, {}, {}, {}), 1)

InsertConnect(r) == RecordConnect(r, "insert", "insert")

\* await collection.insertOne(recordData); MongoDB creates the container
\* when it does not exist
InsertWrite(r) ==
  LET rq  == req[r]
      rec == [id |-> rq.cid, f |-> rq.data]
  IN  /\ rq.op = "insert" /\ rq.pc = "insert"
      /\ \E ok \in BOOLEAN :
           IF ok
           THEN /\ colls' = [k \in DOMAIN colls \cup {Key(rq)} |->
                               IF k = Key(rq) THEN Append(Records(k), rec)
                               ELSE colls[k]]
                /\ req' = [req EXCEPT ![r] = [rq EXCEPT !.pc = "reload"]]
           ELSE /\ req' = [req EXCEPT ![r] = Failed(rq)]
                /\ UNCHANGED colls
      /\ UNCHANGED <<databases, sessions, now, nextId, hist, apps>>

\* await collection.findOne({ _id: result.insertedId }); data is null when
\* the record is gone
InsertReload(r) ==
  LET rq == req[r]
  IN  /\ rq.op = "insert" /\ rq.pc = "reload"
      /\ \E ok \in BOOLEAN :
           req' = [req EXCEPT ![r] =
             IF ok THEN [rq EXCEPT !.pc = "close", !.res = 201,
                                   !.out = WithId(Records(Key(rq)), rq.cid)]
             ELSE Failed(rq)]
      /\ UNCHANGED Others

InsertClose(r) == RecordClose(r, "insert")

(* PUT /:id/tables/:tableId/records/:recordId *)
UpdateFind(r, bodies) == RecordFind(r, "update", Inputs(bodies, {}, {}, {}), 0)

UpdateConnect(r) == RecordConnect(r, "update", "update")

\* A server before MongoDB 5.0 refuses an update whose $set is empty
\* ("'$set' is empty"); later servers take it as an update that sets nothing.
EmptySetRefused(data) == IF DOMAIN data = {} THEN BOOLEAN ELSE {FALSE}

\* new ObjectId(recordId), then await collection.updateOne({ _id }, { $set })
UpdateWrite(r) ==
  LET rq   == req[r]
      hits == {i \in DOMAIN Records(Key(rq)) : Records(Key(rq))[i].id = rq.cid}
  IN  /\ rq.op = "update" /\ rq.pc = "update"
      /\ IF rq.cid = InvalidId
         THEN /\ req' = [req EXCEPT ![r] = [Failed(rq) EXCEPT !.err = "BSONError"]]
              /\ UNCHANGED colls
         ELSE \E ok \in BOOLEAN, refuse \in EmptySetRefused(rq.data) :
           IF ~ok \/ refuse
           THEN /\ req' = [req EXCEPT ![r] =
                     [Failed(rq) EXCEPT
                        !.err = IF ok THEN "FailedToParse" ELSE "StorageError"]]
                /\ UNCHANGED colls
           ELSE IF hits = {}
           THEN \* matchedCount === 0: return inside try
                /\ req' = [req EXCEPT ![r] = [rq EXCEPT !.pc = "close", !.res = 404]]
                /\ UNCHANGED colls
           ELSE /\ colls' = [colls EXCEPT ![Key(rq)] =
                     [i \in DOMAIN @ |->
                        IF i \in hits
                        THEN [@[i] EXCEPT !.f =
                                [k \in DOMAIN @ \cup DOMAIN rq.data |->
                                   IF k \in DOMAIN rq.data THEN rq.data[k] ELSE @[k]]]
                        ELSE @[i]]]
                /\ req' = [req EXCEPT ![r] = [rq EXCEPT !.pc = "reload"]]
      /\ UNCHANGED <<databases, sessions, now, nextId, hist, apps>>

\* await collection.findOne({ _id: objectId })
UpdateReload(r) ==
  LET rq == req[r]
  IN  /\ rq.op = "update" /\ rq.pc = "reload"
      /\ \E ok \in BOOLEAN :
           req' = [req EXCEPT ![r] =
             IF ok THEN [rq EXCEPT !.pc = "close", !.res = 200,
                                   !.out = WithId(Records(Key(rq)), rq.cid)]
             ELSE Failed(rq)]
      /\ UNCHANGED Others

UpdateClose(r) == RecordClose(r, "update")

(* POST /:id/tables/:tableId/records/delete-multiple *)
\* body('recordIds').isArray({ min: 1 }) fails: 400 before anything is read
DeleteManyInvalid(r) ==
  /\ req[r].pc = "idle"
  /\ req' = [req EXCEPT ![r] =
       Responded(NewReq("deleteMany", OwnerA, NoId), 400, "Validation")]
  /\ UNCHANGED Others

DeleteManyFind(r) == RecordFind(r, "deleteMany", NoInputs, 0)

DeleteManyConnect(r) == RecordConnect(r, "deleteMany", "delete")

\* (the first id of the array only)
objectIdsHead(recordIds) == {recordIds[1]}

\* recordIds.map(id => new ObjectId(id)) under $in: the ids of the array
objectIds(recordIds) == Range(recordIds)

\* recordIds.map(id => new ObjectId(id)), then await collection.deleteMany
DeleteManyWrite(r) ==
  LET rq   == req[r]
      kept == SelectSeq(Records(Key(rq)),
                        LAMBDA rec : rec.id \notin objectIds(rq.rids))
  IN  /\ rq.op = "deleteMany" /\ rq.pc = "delete"
      /\ IF InvalidId \in Range(rq.rids)
         THEN /\ req' = [req EXCEPT ![r] = [Failed(rq) EXCEPT !.err = "BSONError"]]
              /\ UNCHANGED colls
         ELSE \E ok \in BOOLEAN :
           IF ok
           THEN /\ colls' = IF Key(rq) \in DOMAIN colls
                            THEN [colls EXCEPT ![Key(rq)] = kept] ELSE colls
                /\ req' = [req EXCEPT ![r] =
                     [rq EXCEPT !.pc = "close", !.res = 200,
                        !.out = <<[deletedCount |->
                                     Len(Records(Key(rq))) - Len(kept)]>>]]
           ELSE /\ req' = [req EXCEPT ![r] = Failed(rq)]
                /\ UNCHANGED colls
      /\ UNCHANGED <<databases, sessions, now, nextId, hist, apps>>

DeleteManyClose(r) == RecordClose(r, "deleteMany")

(* POST /:id/tables/:tableId/query *)
QueryFind(r, filterLists, actions, columns) ==
  RecordFind(r, "query", Inputs({}, filterLists, actions, columns), 0)

QueryConnect(r) == RecordConnect(r, "query", "run")

\* the switch on action: one await on the collection, or a 400 returned
\* inside try
QueryRun(r) ==
  LET rq   == req[r]
      hits == Select(Records(Key(rq)), rq.query)
      Sent(res, out) == [rq EXCEPT !.pc = "close", !.res = res, !.out = out]
  IN  /\ rq.op = "query" /\ rq.pc = "run"
      /\ IF rq.action \notin {"count", "value", "values"}
            \/ (rq.action \in {"value", "values"} /\ rq.column = "")
         THEN req' = [req EXCEPT ![r] = Sent(400, <<>>)]
         ELSE IF QueryFails(rq.query)
         THEN req' = [req EXCEPT ![r] = [Failed(rq) EXCEPT !.err = "MongoServerError"]]
         ELSE \E ok \in BOOLEAN :
           req' = [req EXCEPT ![r] =
             IF ~ok THEN Failed(rq)
             ELSE IF rq.action = "count"
                  THEN Sent(200, <<[count |-> Len(hits)]>>)
             ELSE IF rq.action = "value"
                  THEN Sent(200, IF hits = <<>> THEN <<(<<>>)>>
                                 ELSE <<Project(hits[1], rq.column)>>)
             ELSE Sent(200, [i \in DOMAIN hits |-> Project(hits[i], rq.column)])]
      /\ colls' = collection(Key(rq))
      /\ UNCHANGED <<databases, sessions, now, nextId, hist, apps>>

QueryClose(r) == RecordClose(r, "query")

(* ------------------------------------------------------------ models/App *)
MaxVersion == 3

\* A calculation step that reads a column of the row of a repeating
\* container, and a calculation made of it
RowStep(column) ==
  [id |-> "s1", type |-> "value",
   config |-> [source |-> "repeating_container",
               repeatingContainerId |-> "e1", repeatingColumn |-> column]]

Calculation(id, column) == [id |-> id, steps |-> <<RowStep(column)>>]

\* The calculations maps of an element, by calculation id: none, one, two
CalculationMaps ==
  {<< >>,
   ("c1" :> Calculation("c1", "id")),
   ("c1" :> Calculation("c1", "id")) @@ ("c2" :> Calculation("c2", "value"))}

\* An element of a request body.  extra: it has a field elementSchema does
\* not declare
Element(id, type, calculations, children, extra) ==
  [id |-> id, type |-> type, calculations |-> calculations,
   children |-> children, extra |-> extra]

ElementTypes == {"container", "text", "button", "input", "image", "heading"}

\* Children of a container: elementSchema is not applied to them, so they
\* may have any type and any field
ChildElements ==
  {Element("e2", "text",
           ("c1" :> Calculation("c1", "id")) @@ ("c2" :> Calculation("c2", "value")),
           << >>, TRUE),
   Element("e2", "video", ("c1" :> Calculation("c1", "id")), << >>, FALSE)}

BodyElements ==
  {Element("e1", t, m, ch, x) :
     t \in {"container", "video"}, m \in CalculationMaps,
     ch \in {<< >>} \cup {<<c>> : c \in ChildElements}, x \in BOOLEAN}

Screen(id, name, elements) == [id |-> id, name |-> name, elements |-> elements]

\* The bodies of PUT /:id: without screens, with no screen, and with the
\* screen Home of no or one element
AppBodies ==
  {<< >>, [screens |-> << >>], [screens |-> <<Screen(1, "Home", << >>)>>]}
    \cup {[screens |-> <<Screen(1, "Home", <<e>>)>>] : e \in BodyElements}

\* (an elementSchema that declares no calculations: strict mode drops them)
castElementUndeclared(element) ==
  [element EXCEPT !.calculations = << >>, !.extra = FALSE]

\* elementSchema applied to an element of elements: declared paths are
\* kept, calculations and the items of children (Mixed) as they are, and a
\* field the schema does not declare is dropped
castElement(element) == [element EXCEPT !.extra = FALSE]

\* screenSchema applied to an item of app.screens
castScreen(screen) ==
  [screen EXCEPT !.elements = [j \in DOMAIN @ |-> castElement(@[j])]]

\* validation of save(): type is required and one of the enum
ValidApp(doc) ==
  \A i \in DOMAIN doc.screens : \A j \in DOMAIN doc.screens[i].elements :
    doc.screens[i].elements[j].type \in ElementTypes

\* App.findOne({ _id, owner })
FindApp(id, user) ==
  IF id \in DOMAIN apps /\ apps[id].owner = user THEN apps[id] ELSE NoApp

AppTargets == DOMAIN apps \cup {NoId}

(* PUT /:id *)
\* findOne, then the assignments to the loaded document up to its save
AppPutFind(r, bodies) ==
  /\ req[r].pc = "idle"
  /\ \E u \in Owners, a \in AppTargets, body \in bodies :
       LET app == FindApp(a, u)
           rq  == [NewReq("putApp", u, NoId) EXCEPT !.body = body]
       IN  IF app = NoApp
           THEN req' = [req EXCEPT ![r] = Responded(rq, 404, "NotFound")]
           ELSE IF "screens" \in DOMAIN body
           THEN /\ app.version < MaxVersion
                /\ req' = [req EXCEPT ![r] =
                     [rq EXCEPT !.pc = "save",
                        !.app = [app EXCEPT
                          !.screens = [i \in DOMAIN body.screens |->
                                         castScreen(body.screens[i])],
                          !.version = @ + 1]]]
           ELSE req' = [req EXCEPT ![r] = [rq EXCEPT !.pc = "save", !.app = app]]
  /\ UNCHANGED Others

\* await app.save(): validation, then the $set of the modified paths; the
\* response carries the document
AppPutSave(r) ==
  LET rq == req[r]
  IN  /\ rq.op = "putApp" /\ rq.pc = "save"
      /\ IF ~ValidApp(rq.app)
         THEN /\ req' = [req EXCEPT ![r] = Responded(rq, 500, "ValidationError")]
              /\ UNCHANGED apps
         ELSE \E ok \in BOOLEAN :
           IF ok
           THEN /\ apps' = IF "screens" \in DOMAIN rq.body
                           THEN [apps EXCEPT ![rq.app.id] =
                                   [@ EXCEPT !.screens = rq.app.screens,
                                             !.version = rq.app.version]]
                           ELSE apps
                /\ req' = [req EXCEPT ![r] =
                     [Responded(rq, 200, "none") EXCEPT
                        !.body = rq.body, !.out = <<rq.app>>]]
           ELSE /\ req' = [req EXCEPT ![r] = Responded(rq, 500, "StorageError")]
                /\ UNCHANGED apps
      /\ UNCHANGED <<databases, colls, sessions, now, nextId, hist>>

(* GET /:id *)
AppGet(r) ==
  /\ req[r].pc = "idle"
  /\ \E u \in Owners, a \in AppTargets :
       LET app == FindApp(a, u)
           rq  == NewReq("getApp", u, NoId)
       IN  req' = [req EXCEPT ![r] =
             IF app = NoApp THEN Responded(rq, 404, "NotFound")
             ELSE [Responded(rq, 200, "none") EXCEPT !.out = <<app>>]]
  /\ UNCHANGED Others

(* ------------------------------------------------ the calculation evaluator *)
\* The calculations a text element of the repeating container e1 carries,
\* one per column of the table the container is bound to
RowCalculations == {Calculation("c1", "A"), Calculation("c2", "B")}

\* The evaluation context of one rendered row: the rows bound to repeating
\* containers, by container id
RowContext(row) == [rows |-> ("e1" :> row)]

\* (an evaluator that keeps one current row for all contexts: the row the
\* first slot has bound)
evaluateCurrentRow(calculation, context) ==
  LET config == calculation.steps[1].config
  IN  IF req["r1"].calc # NoCalculation
      THEN req["r1"].data[config.repeatingColumn]
      ELSE context.rows[config.repeatingContainerId][config.repeatingColumn]

\* evaluate(calculation, context) of a repeating_container step: the named
\* column of the row bound to the named container in the context
evaluate(calculation, context) ==
  LET config == calculation.steps[1].config
  IN  context.rows[config.repeatingContainerId][config.repeatingColumn]

\* a row of the table is bound to the container for one rendering of its
\* children
EvaluateBind(r) ==
  /\ req[r].pc = "idle"
  /\ \E key \in DOMAIN colls, calculation \in RowCalculations :
       \E n \in DOMAIN colls[key] :
         req' = [req EXCEPT ![r] =
           [IdleReq EXCEPT !.op = "evaluate", !.pc = "bound",
                           !.cid = colls[key][n].id,
                           !.data = colls[key][n].f,
                           !.calc = calculation]]
  /\ UNCHANGED Others

\* the calculation is evaluated in that context
EvaluateRun(r) ==
  LET rq == req[r]
  IN  /\ rq.op = "evaluate" /\ rq.pc \in {"bound", "done"}
      /\ req' = [req EXCEPT ![r] =
           [rq EXCEPT !.pc = "done",
                      !.out = <<evaluate(rq.calc, RowContext(rq.data))>>]]
      /\ UNCHANGED Others

(* ------------------------------------------------------ the response sent *)
\* The response is sent in the segment that ends the handler.  The model
\* shows it for one state, in which nothing else runs, and then frees the slot.
NoneDone == \A q \in Reqs : req[q].pc # "done"

Retire(r) ==
  /\ req[r].pc = "done"
  /\ req' = [req EXCEPT ![r] = IdleReq]
  /\ UNCHANGED Others

(* ------------------------------------------------------- specifications *)
\* A database of OwnerA, created earlier through POST /
Db0 == Database(100, OwnerA, Sales, generateMongoDbName(OwnerA, Sales, Times[1]))

\* ... with no tables
InitOneDb ==
  /\ databases = (100 :> Db0)
  /\ colls = << >>
  /\ sessions = {}
  /\ req = [r \in Reqs |-> IdleReq]
  /\ now = 1
  /\ nextId = 1
  /\ hist = NoHist
  /\ apps = << >>

\* ... with one empty table, added earlier through POST /:id/tables
InitOneTable ==
  /\ databases = (100 :> [Db0 EXCEPT !.tables = <<Table(101, "Leads")>>,
                                     !.v = 1])
  /\ colls = (<<Db0.mongoDbName, "Leads">> :> <<>>)
  /\ sessions = {}
  /\ req = [r \in Reqs |-> IdleReq]
  /\ now = 1
  /\ nextId = 1
  /\ hist = NoHist
  /\ apps = << >>

AddTableStep(r, names, limit) ==
  \/ AddTableFind(r, names, limit)
  \/ AddTableSave(r)
  \/ AddTableConnect(r)
  \/ AddTableCreate(r)
  \/ AddTableRollback(r)
  \/ AddTableClose(r)

RemoveTableStep(r) ==
  \/ RemoveTableFind(r)
  \/ RemoveTableSave(r)
  \/ RemoveTableConnect(r)
  \/ RemoveTableDrop(r)
  \/ RemoveTableClose(r)

RemoveColumnStep(r) ==
  \/ RemoveColumnFind(r)
  \/ RemoveColumnSave(r)
  \/ RemoveColumnConnect(r)
  \/ RemoveColumnStrip(r)
  \/ RemoveColumnClose(r)

ColumnStep(r, names, types, limit) ==
  \/ AddColumnFind(r, names, types, limit)
  \/ AddColumnSave(r)
  \/ RemoveColumnStep(r)

\* ... with one table that has a column and no records
InitOneColumn ==
  /\ databases = (100 :> [Db0 EXCEPT
                            !.tables = <<[Table(101, "Leads") EXCEPT
                               !.columns = <<Column(102, "A", "string", 0)>>]>>,
                            !.v = 2])
  /\ colls = (<<Db0.mongoDbName, "Leads">> :> <<>>)
  /\ sessions = {}
  /\ req = [r \in Reqs |-> IdleReq]
  /\ now = 1
  /\ nextId = 1
  /\ hist = [orders |-> {<<101, 0>>}]
  /\ apps = << >>

RecordStep(r, bodies, limit) ==
  \/ ListFind(r)
  \/ ListConnect(r)
  \/ ListRead(r)
  \/ ListClose(r)
  \/ InsertFind(r, bodies, limit)
  \/ InsertConnect(r)
  \/ InsertWrite(r)
  \/ InsertReload(r)
  \/ InsertClose(r)
  \/ UpdateFind(r, bodies)
  \/ UpdateConnect(r)
  \/ UpdateWrite(r)
  \/ UpdateReload(r)
  \/ UpdateClose(r)
  \/ DeleteManyInvalid(r)
  \/ DeleteManyFind(r)
  \/ DeleteManyConnect(r)
  \/ DeleteManyWrite(r)
  \/ DeleteManyClose(r)

QueryStep(r, filterLists, actions, columns) ==
  \/ QueryFind(r, filterLists, actions, columns)
  \/ QueryConnect(r)
  \/ QueryRun(r)
  \/ QueryClose(r)

\* Table requests on one database, interleaved
Next ==
  \E r \in Reqs :
    \/ NoneDone /\ (AddTableStep(r, TableNames, MaxId) \/ RemoveTableStep(r))
    \/ Retire(r)

Spec == InitOneDb /\ [][Next]_vars

\* Column requests on one table, interleaved
NextCols ==
  \E r \in Reqs :
    \/ NoneDone /\ ColumnStep(r, {"A", "B"}, {"string", "number"}, MaxId)
    \/ Retire(r)

SpecCols == InitOneTable /\ [][NextCols]_vars

\* Table requests on one database, one request at a time
NextSeq ==
  \E r \in {"r1"} :
    \/ AddTableStep(r, TableNames, MaxSeqId)
    \/ RemoveTableStep(r)
    \/ Retire(r)

SpecSeq == InitOneDb /\ [][NextSeq]_vars

\* Column requests on one database, one request at a time
NextSeqCols ==
  \E r \in {"r1"} :
    \/ ColumnStep(r, {"A", "B", "C", "D"}, {"string", "number"}, MaxSeqId)
    \/ Retire(r)

SpecSeqCols == InitOneTable /\ [][NextSeqCols]_vars


\* Database requests of all owners, interleaved, from an empty collection
InitEmpty ==
  /\ databases = << >>
  /\ colls = << >>
  /\ sessions = {}
  /\ req = [r \in Reqs |-> IdleReq]
  /\ now = 1
  /\ nextId = 1
  /\ hist = NoHist
  /\ apps = << >>

DatabaseStep(r, names, limit) ==
  \/ CreateFind(r, names, limit)
  \/ CreateSave(r)
  \/ CreateConnect(r)
  \/ CreateProbe(r)
  \/ CreateProbeDrop(r)
  \/ CreateClose(r)
  \/ DestroyFind(r)
  \/ DestroyDrop(r)
  \/ DestroyClose(r)
  \/ DestroyDelete(r)

NextDb ==
  \/ \E r \in Reqs :
       \/ NoneDone /\ DatabaseStep(r, {Sales}, MaxId)
       \/ Retire(r)
  \/ NoneDone /\ Tick

SpecDb == InitEmpty /\ [][NextDb]_vars


\* Database, table, column and record requests of all owners, one request at
\* a time
NextSeqDb ==
  \/ \E r \in {"r1"} :
       \/ DatabaseStep(r, {Sales}, MaxAllId)
       \/ AddTableStep(r, {"Leads"}, MaxAllId)
       \/ RemoveTableStep(r)
       \/ ColumnStep(r, {"A"}, {"string"}, MaxAllId)
       \/ RecordStep(r, {"A" :> Str(<<"x">>)}, MaxAllId)
       \/ Retire(r)
  \/ NoneDone /\ Tick

SpecSeqDb == InitOneColumn /\ [][NextSeqDb]_vars

\* ... and query requests
NextOwners ==
  \/ NextSeqDb
  \/ \E r \in {"r1"} : QueryStep(r, {<<>>}, {"count", "values"}, {"A"})

SpecOwners == InitOneColumn /\ [][NextOwners]_vars


\* The requests that open a storage session, interleaved on one database.
\* Either request adds tables, writes, reads and queries records; the first
\* also removes tables and columns.  Two interleaved table requests of every
\* kind are the subject of Spec.
NextMix ==
  \/ \E r \in {"r1"} : NoneDone /\
         \/ RemoveTableStep(r)
         \/ RemoveColumnStep(r)
  \/ \E r \in Reqs : NoneDone /\
         \/ AddTableStep(r, {"Notes"}, MaxMixId)
         \/ RecordStep(r, {"A" :> Str(<<"x">>)}, MaxMixId)
         \/ QueryStep(r, {<<>>}, {"count", "sum"}, {"A"})
  \/ \E r \in Reqs : Retire(r)

SpecMix == InitOneColumn /\ [][NextMix]_vars


\* A step in which nothing fails: no request is left with a storage, version
\* or validation error, and the removeTable request, whose catch block
\* swallows the error, opens its connection and drops its container
NoFailure ==
  \A r \in Reqs :
    /\ req'[r].err \in {"none", "NotFound", "Conflict", "Validation"}
    /\ (req[r].op = "removeTable" /\ req[r].pc = "connect"
          /\ req'[r].pc # "connect") => req'[r].pc = "drop"
    /\ (req[r].op = "removeTable" /\ req[r].pc = "drop"
          /\ req'[r].pc # "drop") => Key(req[r]) \notin DOMAIN colls'

\* Table and column requests of the first request interleaved with record
\* and query requests of the second, in behaviours where nothing fails
NextClean ==
  /\ \/ \E r \in {"r1"} : NoneDone /\
           \/ AddTableFind(r, {"Notes"}, MaxId)
           \/ AddTableSave(r)
           \/ AddTableConnect(r)
           \/ AddTableCreate(r)
           \/ AddTableClose(r)
           \/ RemoveTableStep(r)
           \/ ColumnStep(r, {"B"}, {"string"}, MaxId)
     \/ \E r \in {"r2"} : NoneDone /\
           \/ RecordStep(r, {"A" :> Str(<<"x">>)}, MaxId)
           \/ QueryStep(r, {<<>>}, {"count"}, {"A"})
     \/ \E r \in Reqs : Retire(r)
  /\ NoFailure

SpecClean == InitOneColumn /\ [][NextClean]_vars


\* Two names of one owner that the sanitizer maps to the same text
SalesBang == <<"S","a","l","e","s","!">>

SalesMark == <<"s","a","l","e","s","?">>

\* Creates and destroys of one owner under the two names, one request at a
\* time
NextOneOwner ==
  \/ \E r \in {"r1"} :
       \/ /\ CreateFind(r, {SalesBang, SalesMark}, MaxSeqId)
          /\ req'[r].doc.owner = OwnerA
       \/ CreateSave(r)
       \/ CreateConnect(r)
       \/ CreateProbe(r)
       \/ CreateProbeDrop(r)
       \/ CreateClose(r)
       \/ /\ DestroyFind(r)
          /\ req'[r].res # 404
       \/ DestroyDrop(r)
       \/ DestroyClose(r)
       \/ DestroyDelete(r)
       \/ Retire(r)
  \/ NoneDone /\ Tick

SpecOneOwner == InitEmpty /\ [][NextOneOwner]_vars

\* One app of owner A with the default screen
InitApps ==
  /\ databases = << >>
  /\ colls = << >>
  /\ sessions = {}
  /\ req = [r \in Reqs |-> IdleReq]
  /\ now = 1
  /\ nextId = 1
  /\ hist = NoHist
  /\ apps = (200 :> App(200, OwnerA, <<Screen(1, "Home", << >>)>>, 1))

\* Saves by the first request and reloads by the second, of all owners,
\* interleaved
NextApps ==
  \/ \E r \in {"r1"} : NoneDone /\ (AppPutFind(r, AppBodies) \/ AppPutSave(r))
  \/ \E r \in {"r2"} : NoneDone /\ AppGet(r)
  \/ \E r \in Reqs : Retire(r)

SpecApps == InitApps /\ [][NextApps]_vars

\* The first database of an empty collection, created by any owner under
\* every name
NextNames ==
  \/ \E r \in {"r1"} :
       \/ databases = << >> /\ CreateFind(r, DatabaseNames, MaxSeqId)
       \/ CreateSave(r)
       \/ CreateConnect(r)
       \/ CreateProbe(r)
       \/ CreateProbeDrop(r)
       \/ CreateClose(r)
       \/ Retire(r)
  \/ NoneDone /\ Tick

SpecNames == InitEmpty /\ [][NextNames]_vars


\* The values a JSON body or a filter can carry: null, booleans, numbers,
\* and strings that are empty, decimal numbers, boolean words or neither
InputStrings ==
  {<<>>, <<"t","r","u","e">>, <<"f","a","l","s","e">>, <<"x">>,
   <<"3","7","a","b","c">>} \cup {numberString(n) : n \in 0..MaxNumber}

InputValues ==
  {Null, Bool(TRUE), Bool(FALSE)} \cup {Num(n) : n \in 0..MaxNumber}
    \cup {Str(s) : s \in InputStrings}

\* Record bodies: no field, the field A with every value, and a body with
\* the field B and a field that names no column
ValueBodies ==
  {[n \in {} |-> Null]} \cup {("A" :> v) : v \in InputValues}
    \cup {("B" :> Str(<<"3","7","a","b","c">>)) @@ ("Z" :> Str(<<"x">>))}

ValueFilters == {<<Filter("A", "equals", v)>> : v \in InputValues}

\* A database with one table of two columns: A of any type, B a number
InitTyped ==
  /\ \E type \in ColumnTypes :
       databases = (100 :> [Db0 EXCEPT
                             !.tables = <<[Table(101, "Leads") EXCEPT
                                !.columns = <<Column(102, "A", type, 0),
                                              Column(103, "B", "number", 1)>>]>>,
                             !.v = 3])
  /\ colls = (<<Db0.mongoDbName, "Leads">> :> <<>>)
  /\ sessions = {}
  /\ req = [r \in Reqs |-> IdleReq]
  /\ now = 1
  /\ nextId = 1
  /\ hist = [orders |-> {<<101, 0>>, <<101, 1>>}]
  /\ apps = << >>

\* Record and query requests with every value, one request at a time
NextValues ==
  \/ \E r \in {"r1"} :
       \/ RecordStep(r, ValueBodies, MaxValueId)
       \/ QueryStep(r, ValueFilters, {"count"}, {"A"})
       \/ Retire(r)
  \/ NoneDone /\ Tick

SpecValues == InitTyped /\ [][NextValues]_vars


\* A filter of a query body with its logic field, '' when it has none
LogicFilter(column, operator, value, logic) ==
  [column |-> column, operator |-> operator, value |-> value, logic |-> logic]

\* Filter values: missing, falsy, and strings that read as text or as a
\* regular expression
FilterValues ==
  {Undefined, Null, Num(0), Num(1), Bool(FALSE), Str(<<>>), Str(<<"a">>),
   Str(<<".">>), Str(<<"b", "*">>), Str(<<"*">>)}

\* One filter: a column of the table, none, or a name that is no column;
\* an operator of buildMongoCondition, none, or "between"
SingleFilters ==
  {LogicFilter(c, o, v, l) :
     c \in {"A", "B", "Z", ""}, o \in Operators \cup {"between", ""},
     v \in FilterValues, l \in {"", "OR"}}

\* Two filters, the second joined by AND or by OR
PairedFilters ==
  {LogicFilter(c, o, v, "") :
     c \in {"A", "B"}, o \in {"equals", "greater_than", "contains", "between"},
     v \in {Undefined, Num(1), Str(<<"a">>), Str(<<>>)}}

FilterLists ==
  {<<>>} \cup {<<f>> : f \in SingleFilters}
    \cup {<<f, [g EXCEPT !.logic = l]>> :
            f \in PairedFilters, g \in PairedFilters, l \in {"AND", "OR"}}

\* A table with a string column A, a number column B and three records
\* inserted earlier through POST records
InitQueries ==
  /\ databases = (100 :> [Db0 EXCEPT
                            !.tables = <<[Table(101, "Leads") EXCEPT
                               !.columns = <<Column(102, "A", "string", 0),
                                             Column(103, "B", "number", 1)>>]>>,
                            !.v = 3])
  /\ colls = (<<Db0.mongoDbName, "Leads">> :>
               <<[id |-> 1, f |-> ("A" :> Str(<<"a", "b">>)) @@ ("B" :> Num(1))],
                 [id |-> 2, f |-> ("A" :> Str(<<"A", ".">>)) @@ ("B" :> Num(2))],
                 [id |-> 3, f |-> ("A" :> Str(<<>>)) @@ ("B" :> Num(0))]>>)
  /\ sessions = {}
  /\ req = [r \in Reqs |-> IdleReq]
  /\ now = 1
  /\ nextId = 4
  /\ hist = [orders |-> {<<101, 0>>, <<101, 1>>}]
  /\ apps = << >>

\* Queries with every filter list, action and column on a table that no
\* request changes
NextQueries ==
  \E r \in {"r1"} :
    \/ QueryStep(r, FilterLists, {"count", "value", "values", "sum"},
                 {"A", "Z", ""})
    \/ Retire(r)

SpecQueries == InitQueries /\ [][NextQueries]_vars

\* Renderings of the rows of a table, side by side and repeated
NextRows ==
  \E r \in Reqs : EvaluateBind(r) \/ EvaluateRun(r) \/ Retire(r)

SpecRows == InitQueries /\ [][NextRows]_vars


(* =============================================================== claims *)
StoredTables(d) == databases[d].tables

TablesOf(d) == {i \in DOMAIN StoredTables(d) : StoredTables(d)[i].kind = "table"}

\* C1: when the connection or the container creation of addTable fails, the
\* stored table list is, once the catch block has run, the list the call
\* loaded, and the error it rethrows is the storage error.
C1_FailedAddTableRestoresTables ==
  \A r \in Reqs :
    (req[r].op = "addTable" /\ req[r].pc = "close" /\ req[r].err # "none")
      => /\ req[r].dbId \in DOMAIN databases
         /\ StoredTables(req[r].dbId) = req[r].loaded.tables
         /\ req[r].err \in {"StorageError", "NamespaceExists"}

\* a failed addTable has rolled back on a database that holds another table
C1_Witness ==
  \E r \in Reqs :
    /\ req[r].op = "addTable" /\ req[r].pc = "close"
    /\ req[r].err = "StorageError"
    /\ req[r].loaded.tables # <<>>
    /\ StoredTables(req[r].dbId) = req[r].loaded.tables

HoldsSession(r) == req[r].nOpen = req[r].nClose + 1

\* C2: a request opens at most one session and has closed it once when it
\* has completed; every open session is held by exactly one request in
\* flight, and no session is open when no request is in flight.
C2_SessionsReleased ==
  /\ \A r \in Reqs :
       /\ req[r].nOpen \in {0, 1}
       /\ req[r].nClose \in {0, req[r].nOpen}
       /\ req[r].pc = "done" => req[r].nClose = req[r].nOpen
       /\ HoldsSession(r) => InFlight(r) /\ \E s \in sessions : s.by = r
  /\ \A s \in sessions : HoldsSession(s.by)
  /\ Cardinality(sessions) = Cardinality({r \in Reqs : HoldsSession(r)})
  /\ (\A r \in Reqs : ~InFlight(r)) => sessions = {}

\* a failed addTable and a query refused inside its try block are about to
\* close their sessions on the same namespace
C2_Witness ==
  \E r, q \in Reqs :
    /\ req[r].op = "addTable" /\ req[r].pc = "close" /\ req[r].err # "none"
    /\ req[q].op = "query" /\ req[q].pc = "close" /\ req[q].res = 400
    /\ Cardinality(sessions) = 2
    /\ \A s, t \in sessions : s.ns = t.ns

\* C3: the table names of one database are pairwise distinct in every
\* reachable state, whatever the interleaving of table requests.
C3_TableNamesDistinct ==
  \A d \in DOMAIN databases :
    \A i, j \in TablesOf(d) :
      i # j => StoredTables(d)[i].name # StoredTables(d)[j].name

\* C4: the column names of one table are pairwise distinct in every
\* reachable state, whatever the interleaving of column requests.
C4_ColumnNamesDistinct ==
  \A d \in DOMAIN databases :
    \A t \in TablesOf(d) :
      LET cols == StoredTables(d)[t].columns
      IN  \A i, j \in DOMAIN cols : i # j => cols[i].name # cols[j].name

\* the pending addColumn of r: the stored columns of its table, and its column
PendingAddColumn(r) == req[r].op = "addColumn" /\ req[r].pc = "save"

StoredColumnsFor(r) ==
  StoredTables(req[r].dbId)[IndexOfId(StoredTables(req[r].dbId), req[r].tid)].columns

NewColumnOf(r) ==
  LET cols == req[r].doc.tables[IndexOfId(req[r].doc.tables, req[r].tid)].columns
  IN  cols[Len(cols)]

\* C5 (as claimed): the order given to a new column is the order of no
\* column that was ever stored in that table, removed ones included.
C5_OrderNeverReused ==
  \A r \in Reqs :
    PendingAddColumn(r) => <<req[r].tid, NewColumnOf(r).order>> \notin hist.orders

\* C5 (amended): the order given to a new column is greater than the order
\* of every column now in the table; it differs from the order of a removed
\* column unless that order is above the orders of all remaining columns.
C5_OrderAboveRemaining ==
  \A r \in Reqs :
    PendingAddColumn(r) =>
      LET cols == StoredColumnsFor(r)
          new  == NewColumnOf(r).order
      IN  /\ \A j \in DOMAIN cols : new > cols[j].order
          /\ \A p \in hist.orders :
               (p[1] = req[r].tid /\ \E j \in DOMAIN cols : cols[j].order >= p[2])
                 => new # p[2]

\* a column is being added to a table that holds a column and lost another
\* one of a smaller order
C5_Witness ==
  \E r \in Reqs :
    /\ PendingAddColumn(r)
    /\ StoredColumnsFor(r) # <<>>
    /\ \E p \in hist.orders :
         /\ p[1] = req[r].tid
         /\ \A j \in DOMAIN StoredColumnsFor(r) : StoredColumnsFor(r)[j].order # p[2]
         /\ \E j \in DOMAIN StoredColumnsFor(r) : StoredColumnsFor(r)[j].order > p[2]

\* C6: a step that stores a new column gives it the order 0 when the table
\* had no columns, and one more than the greatest stored order otherwise.
C6_OrderIsMaxPlusOne ==
  [][\A d \in DOMAIN databases \cap DOMAIN databases' :
       \A i \in DOMAIN databases[d].tables \cap DOMAIN databases'[d].tables :
         LET old == databases[d].tables[i].columns
             new == databases'[d].tables[i].columns
         IN  (Len(new) = Len(old) + 1 /\ SubSeq(new, 1, Len(old)) = old)
               => /\ old = <<>> => new[Len(new)].order = 0
                  /\ old # <<>> =>
                       /\ \E j \in DOMAIN old : new[Len(new)].order = old[j].order + 1
                       /\ \A j \in DOMAIN old : new[Len(new)].order > old[j].order]_vars

\* A, B, C were added, B was removed, D was added: the orders are 0, 2, 3
C6_Witness ==
  \E d \in DOMAIN databases :
    \E t \in TablesOf(d) :
      LET cols == StoredTables(d)[t].columns
      IN  /\ [j \in DOMAIN cols |-> cols[j].name] = <<"A", "C", "D">>
          /\ [j \in DOMAIN cols |-> cols[j].order] = <<0, 2, 3>>
          /\ hist.orders = {<<StoredTables(d)[t].id, o>> : o \in 0..3}

\* C7: the columns of a table, in list order, have strictly increasing
\* orders in every reachable state, also when addColumn requests interleave.
C7_OrdersIncrease ==
  \A d \in DOMAIN databases :
    \A t \in TablesOf(d) :
      LET cols == StoredTables(d)[t].columns
      IN  \A i, j \in DOMAIN cols : i < j => cols[i].order < cols[j].order

\* another stored database has the owner and the name of r's document
OwnerHasName(r) ==
  \E d \in DOMAIN databases :
    /\ d # req[r].dbId
    /\ databases[d].owner = req[r].doc.owner
    /\ databases[d].name = req[r].doc.name
    /\ databases[d].status = "active"

\* C8: a create that fails while its owner has an active database of that
\* name fails with Conflict, also when the two creates ran concurrently.
C8_DuplicateNameFailsWithConflict ==
  \A r \in Reqs :
    (req[r].op = "create" /\ req[r].pc = "done" /\ req[r].res # 201
       /\ req[r].err # "StorageError" /\ OwnerHasName(r))
      => (req[r].res = 400 /\ req[r].err = "Conflict")

\* C9: a create is never refused because of a database of another owner:
\* a create whose owner has no database of that name succeeds whenever its
\* storage works.
C9_OtherOwnersDoNotCollide ==
  \A r \in Reqs :
    (req[r].op = "create" /\ req[r].pc = "done" /\ ~OwnerHasName(r)
       /\ req[r].err # "StorageError")
      => req[r].res = 201

\* C10: no two stored databases have the same namespace id, and no step
\* changes the namespace id of a database that stays stored.
C10_NamespaceUniqueAndFixed ==
  /\ [](\A d, e \in DOMAIN databases :
          d # e => databases[d].mongoDbName # databases[e].mongoDbName)
  /\ [][\A d \in DOMAIN databases \cap DOMAIN databases' :
          databases'[d].mongoDbName = databases[d].mongoDbName]_vars

\* two databases of owners with the same id suffix and the same name are
\* stored, and a record has been inserted into a table of one of them
C10_Witness ==
  \E d, e \in DOMAIN databases :
    /\ d # e
    /\ databases[d].name = databases[e].name
    /\ sliceTail(databases[d].owner, 8) = sliceTail(databases[e].owner, 8)
    /\ \E k \in DOMAIN colls :
         k[1] = databases[d].mongoDbName /\ colls[k] # <<>>

\* the name short form as the specification words it: lower-cased, every
\* character outside [a-z0-9] replaced by "_", runs of "_" collapsed, one
\* leading and one trailing "_" trimmed, cut to 15 characters
NameShortOf(name) ==
  LET lower    == [i \in DOMAIN name |->
                     IF \E k \in DOMAIN UpperLetters : UpperLetters[k] = name[i]
                     THEN LowerLetters[CHOOSE k \in DOMAIN UpperLetters :
                                         UpperLetters[k] = name[i]]
                     ELSE name[i]]
      replaced == [i \in DOMAIN name |->
                     IF lower[i] \in Range(LowerLetters) \cup Range(Digits)
                     THEN lower[i] ELSE "_"]
      kept     == {i \in DOMAIN name :
                     ~(replaced[i] = "_" /\ i > 1 /\ replaced[i - 1] = "_")}
      collapsed == [k \in 1..Cardinality(kept) |->
                     replaced[CHOOSE i \in kept :
                                Cardinality({j \in kept : j <= i}) = k]]
      lo       == IF collapsed # <<>> /\ collapsed[1] = "_" THEN 2 ELSE 1
      hi       == IF Len(collapsed) >= lo /\ collapsed[Len(collapsed)] = "_"
                  THEN Len(collapsed) - 1 ELSE Len(collapsed)
      trimmed  == SubSeq(collapsed, lo, hi)
  IN  SubSeq(trimmed, 1, IF Len(trimmed) > 15 THEN 15 ELSE Len(trimmed))

\* the last six decimal digits of a timestamp of at least six digits
LastSixDigits(timeMs) ==
  [i \in 1..6 |-> Digits[((timeMs \div (10 ^ (6 - i))) % 10) + 1]]

C12_RemovedNameCanBeAddedAgain ==
  \A r \in Reqs : req[r].op = "addTable" => req[r].err # "NamespaceExists"

\* C13: a destroy that answers with success has removed the metadata of
\* the database and left no container in its namespace.
C13_DestroyRemovesMetadataAndNamespace ==
  [][\A r \in Reqs :
       (req[r].op = "destroy" /\ req[r].pc = "delete"
          /\ req'[r].pc = "done" /\ req'[r].res = 200)
         => /\ req[r].dbId \notin DOMAIN databases'
            /\ \A k \in DOMAIN colls' : k[1] # req[r].doc.mongoDbName]_vars

\* C14: a create that fails after its metadata was saved (the session does
\* not open, or the probe fails) leaves no database of that owner and name.
C14_FailedCreateLeavesNoMetadata ==
  \A r \in Reqs :
    (req[r].op = "create" /\ req[r].pc = "done"
       /\ req[r].err \in {"StorageError", "NamespaceExists"})
      => ~ \E d \in DOMAIN databases :
             /\ databases[d].owner = req[r].doc.owner
             /\ databases[d].name = req[r].doc.name

\* the removeColumn of r has saved its metadata change
SavedRemoveColumn(r) ==
  req[r].op = "removeColumn" /\ req[r].pc \in {"connect", "strip", "close"}

\* the records of the container of the table r's removeColumn works on
RecordsFor(r) == Records(<<req[r].doc.mongoDbName, req[r].doc.tables[1].name>>)

\* C15: a removeColumn of an existing column saves the removal, so the
\* column is gone from the stored table; it answers with success whether
\* the strip worked or not; and when the strip worked, no record of the
\* container has a field of that name.
C15_RemoveColumnSwallowsStripFailure ==
  /\ [](\A r \in Reqs :
          SavedRemoveColumn(r) =>
            /\ \A i \in DOMAIN StoredColumnsFor(r) :
                 StoredColumnsFor(r)[i].id # req[r].cid
            /\ (req[r].pc = "close" /\ req[r].err = "none") =>
                 \A i \in DOMAIN RecordsFor(r) :
                   req[r].name \notin DOMAIN RecordsFor(r)[i].f)
  /\ [][\A r \in Reqs :
         /\ (req[r].op = "removeColumn" /\ req[r].pc = "save")
              => req'[r].pc \in {"save", "connect"}
         /\ (SavedRemoveColumn(r) /\ req'[r].pc = "done")
              => (req'[r].res = 200 /\ req'[r].err = "none")]_vars

\* the strip worked on a container that holds a record
C15_Witness ==
  \E r \in Reqs :
    /\ req[r].op = "removeColumn" /\ req[r].pc = "close"
    /\ req[r].err = "none"
    /\ RecordsFor(r) # <<>>

\* the columns now stored for the table of a record request
ColumnsFor(rq) ==
  StoredTables(rq.dbId)[IndexOfId(StoredTables(rq.dbId), rq.tid)].columns

\* the insert or update of r has built its data and not yet written it
Writing(r) ==
  /\ req[r].op \in {"insert", "update"}
  /\ req[r].pc \in {"connect", "insert", "update"}

\* C16: the data an insert builds has exactly the column names as fields:
\* a value of the column's type for a field of the body, the default of the
\* type ("", 0, false, now) otherwise, and nothing for body fields that name
\* no column; the write appends exactly that record to the container.
C16_InsertStoresExactlyTheColumns ==
  [][\A r \in Reqs :
       /\ (req[r].pc = "idle" /\ req'[r].op = "insert" /\ req'[r].pc = "connect")
            => LET rq   == req'[r]
                   cols == ColumnsFor(rq)
               IN  /\ DOMAIN rq.data = {cols[i].name : i \in DOMAIN cols}
                   /\ \A i \in DOMAIN cols :
                        LET f == rq.data[cols[i].name]
                        IN  IF cols[i].name \in DOMAIN rq.body
                            THEN f.t = cols[i].type
                            ELSE f = CASE cols[i].type = "number"  -> Num(0)
                                       [] cols[i].type = "boolean" -> Bool(FALSE)
                                       [] cols[i].type = "date"    -> DateOf(Times[now])
                                       [] OTHER                    -> Str(<<>>)
       /\ (req[r].op = "insert" /\ req[r].pc = "insert" /\ req'[r].pc = "reload")
            => /\ DOMAIN colls' = DOMAIN colls \cup {Key(req[r])}
               /\ colls'[Key(req[r])] =
                    Append(Records(Key(req[r])),
                           [id |-> req[r].cid, f |-> req[r].data])
               /\ \A k \in DOMAIN colls \ {Key(req[r])} : colls'[k] = colls[k]]_vars

\* a body with a field that names no column was inserted: the new record
\* has the fields A and B only
C16_Witness ==
  \E r \in Reqs :
    /\ req[r].op = "insert" /\ req[r].pc = "reload"
    /\ "Z" \in DOMAIN req[r].body
    /\ LET recs == Records(Key(req[r]))
       IN  recs # <<>> /\ DOMAIN recs[Len(recs)].f = {"A", "B"}

C18_BooleanColumnStoresTrueWords ==
  \A r \in Reqs :
    Writing(r) =>
      \A i \in DOMAIN ColumnsFor(req[r]) :
        LET c == ColumnsFor(req[r])[i]
        IN  (c.type = "boolean" /\ c.name \in DOMAIN req[r].body) =>
              LET v == req[r].body[c.name]
                  f == req[r].data[c.name]
              IN  IF v.t = "boolean" THEN f = v
                  ELSE f = Bool(v \in {Str(<<"t","r","u","e">>), Str(<<"1">>), Num(1)})

\* C19: on a string column an insert or update stores the string form of
\* the value (0 as "0", false as "false"), and "" only for null.
C19_StringColumnStoresStringForm ==
  \A r \in Reqs :
    Writing(r) =>
      \A i \in DOMAIN ColumnsFor(req[r]) :
        LET c == ColumnsFor(req[r])[i]
        IN  (c.type = "string" /\ c.name \in DOMAIN req[r].body) =>
              LET v == req[r].body[c.name]
                  f == req[r].data[c.name]
              IN  /\ v.t = "null" => f = Str(<<>>)
                  /\ v.t = "string" => f = v
                  /\ v.t = "number" => f = Str(numberString(v.n))
                  /\ v = Bool(TRUE) => f = Str(<<"t","r","u","e">>)
                  /\ v = Bool(FALSE) => f = Str(<<"f","a","l","s","e">>)

\* C20: the value a filter on a column is compiled to is the value a write
\* of the same input to that column stores, so the record an insert is about
\* to write matches the filter "column equals input".
C20_FilterValueIsStoredValue ==
  \A r \in Reqs :
    Writing(r) =>
      \A i \in DOMAIN ColumnsFor(req[r]) :
        LET c == ColumnsFor(req[r])[i]
        IN  c.name \in DOMAIN req[r].body =>
              /\ Bson(convertFilterValue(req[r].body[c.name], c.type))
                   = req[r].data[c.name]
              /\ req[r].op = "insert" =>
                   Matches([id |-> req[r].cid, f |-> req[r].data],
                           buildMongoQuery(
                             <<Filter(c.name, "equals", req[r].body[c.name])>>,
                             ColumnsFor(req[r])))

\* the query of r is compiled and its response not yet sent
Querying(r) ==
  /\ req[r].op = "query"
  /\ req[r].pc \in {"connect", "run", "close"}

\* the filter is complete and its operator is one of the seven
Contributes(filter) ==
  /\ filter.column # ""
  /\ filter.operator \in Operators
  /\ filter.value.t # "undefined"

\* the comparison of one filter: its column, its operator and its value
\* converted to the type of the column
ConditionOf(filter, columns) ==
  Filter(filter.column, filter.operator,
         convertFilterValue(filter.value, columnType(filter.column, columns)))

Reverse(seq) == [i \in DOMAIN seq |-> seq[Len(seq) + 1 - i]]

\* C21: the compiled query is matched by a record exactly when the record
\* satisfies the comparison of every filter that is not skipped; with no
\* such filter the query is the empty one, which every record matches, with
\* one it is the comparison of that filter alone, and the filters in the
\* opposite order select the same records.
C21_QueryIsConjunctionOfFilters ==
  \A r \in Reqs :
    Querying(r) =>
      LET F    == req[r].filters
          cols == ColumnsFor(req[r])
          recs == Records(Key(req[r]))
          used == {i \in DOMAIN F : Contributes(F[i])}
      IN  /\ \A j \in DOMAIN recs :
               Matches(recs[j], req[r].query)
                 <=> \A i \in used : MatchesCondition(recs[j], ConditionOf(F[i], cols))
          /\ used = {} => req[r].query = <<>>
          /\ \A i \in used : used = {i} => req[r].query = <<ConditionOf(F[i], cols)>>
          /\ Select(recs, buildMongoQuery(Reverse(F), cols))
               = Select(recs, req[r].query)

\* two filters contribute: one record satisfies both, another the first only
C21_Witness ==
  \E r \in Reqs :
    /\ Querying(r)
    /\ Len(req[r].filters) = 2
    /\ Len(req[r].query) = 2
    /\ LET recs == Records(Key(req[r]))
       IN  /\ \E j \in DOMAIN recs : Matches(recs[j], req[r].query)
           /\ \E j \in DOMAIN recs :
                /\ MatchesCondition(recs[j], req[r].query[1])
                /\ ~MatchesCondition(recs[j], req[r].query[2])

\* C22: a filter with an operator that is none of the seven, a filter
\* without column or operator and a filter whose value is undefined add no
\* condition to the query and do not fail the request; every other filter
\* adds its condition, also when its value is null, 0, false or ''.
C22_OnlyIncompleteFiltersAreSkipped ==
  \A r \in Reqs :
    Querying(r) =>
      LET F    == req[r].filters
          cols == ColumnsFor(req[r])
          skipped == {i \in DOMAIN F :
                        \/ F[i].operator \notin Operators
                        \/ F[i].column = ""
                        \/ F[i].value = Undefined}
      IN  /\ Len(req[r].query) = Len(F) - Cardinality(skipped)
          /\ \A i \in DOMAIN F \ skipped :
               \E k \in DOMAIN req[r].query : req[r].query[k] = ConditionOf(F[i], cols)
          /\ \A i \in DOMAIN F :
               (/\ F[i].value \in {Null, Num(0), Bool(FALSE), Str(<<>>)}
                /\ F[i].column # ""
                /\ F[i].operator \in Operators)
                 => i \notin skipped
          /\ req[r].pc = "connect" => req[r].err = "none"

\* a "between" filter was skipped and the filter after it, whose value is
\* '', was applied: the query was answered
C22_Witness ==
  \E r \in Reqs :
    /\ Querying(r)
    /\ Len(req[r].filters) = 2
    /\ req[r].filters[1].operator = "between"
    /\ req[r].filters[2].value = Str(<<>>)
    /\ req[r].query = <<ConditionOf(req[r].filters[2], ColumnsFor(req[r]))>>
    /\ req[r].pc = "close" /\ req[r].res = 200

\* the logic values a filter can carry; '' is a filter without the field
Logics == {"AND", "OR", ""}

\* the filters with the logic fields replaced
Relabelled(filters, labels) ==
  [i \in DOMAIN filters |-> [filters[i] EXCEPT !.logic = labels[i]]]

\* C23: the filters of a query with any other logic values compile to the
\* same query, and so select the same records.
C23_LogicFieldIsNotRead ==
  \A r \in Reqs :
    Querying(r) =>
      LET F    == req[r].filters
          cols == ColumnsFor(req[r])
          recs == Records(Key(req[r]))
      IN  \A labels \in [DOMAIN F -> Logics] :
            /\ buildMongoQuery(Relabelled(F, labels), cols) = req[r].query
            /\ Select(recs, buildMongoQuery(Relabelled(F, labels), cols))
                 = Select(recs, req[r].query)

\* two filters joined by OR were counted: the count is that of the records
\* matching both, and a record matching one of them only is not counted
C23_Witness ==
  \E r \in Reqs :
    /\ Querying(r)
    /\ Len(req[r].filters) = 2
    /\ req[r].filters[2].logic = "OR"
    /\ Len(req[r].query) = 2
    /\ req[r].pc = "close" /\ req[r].res = 200 /\ req[r].action = "count"
    /\ LET recs == Records(Key(req[r]))
           both == {j \in DOMAIN recs : Matches(recs[j], req[r].query)}
           any  == {j \in DOMAIN recs : MatchesAny(recs[j], req[r].query)}
       IN  /\ req[r].out = <<[count |-> Cardinality(both)]>>
           /\ both # {}
           /\ both # any

\* text occurs in s, character for character, whatever the case
ContainsText(s, text) ==
  \E i \in 0..(Len(s) - Len(text)) :
    toLowerCase(SubSeq(s, i + 1, i + Len(text))) = toLowerCase(text)

\* C24: a count with one "contains" filter whose value is a string counts
\* the records whose value of the column, read as a string, contains that
\* string, on a column of any type and for any characters in the string.
C24_ContainsIsSubstring ==
  \A r \in Reqs :
    (/\ req[r].op = "query" /\ req[r].pc = "close" /\ req[r].action = "count"
     /\ Len(req[r].filters) = 1
     /\ Contributes(req[r].filters[1])
     /\ req[r].filters[1].operator = "contains"
     /\ req[r].filters[1].value.t = "string"
     /\ req[r].err # "StorageError")
      => LET filter == req[r].filters[1]
             recs   == Records(Key(req[r]))
             found  == {j \in DOMAIN recs :
                          /\ filter.column \in DOMAIN recs[j].f
                          /\ ContainsText(StringOf(recs[j].f[filter.column]),
                                          filter.value.s)}
         IN  /\ req[r].res = 200
             /\ req[r].out = <<[count |-> Cardinality(found)]>>

\* the update of r is about to write to a record that its container holds
UpdatesARecord(r) ==
  /\ req[r].op = "update" /\ req[r].pc = "update"
  /\ \E j \in DOMAIN Records(Key(req[r])) : Records(Key(req[r]))[j].id = req[r].cid

\* C25: unless the storage fails, the write of an update to an existing
\* record succeeds, also with no field to set; it sets the fields of the
\* body that name a column to their converted values and changes no other
\* field, no other record and no other container.
C25_UpdateSetsOnlyKnownFields ==
  [][\A r \in Reqs :
       (UpdatesARecord(r) /\ req'[r] # req[r])
         => \/ req'[r].err = "StorageError" /\ colls' = colls
            \/ LET key   == Key(req[r])
                   names == {ColumnsFor(req[r])[i].name :
                               i \in DOMAIN ColumnsFor(req[r])}
               IN  /\ req'[r].pc = "reload" /\ req'[r].err = "none"
                   /\ DOMAIN req[r].data = DOMAIN req[r].body \cap names
                   /\ DOMAIN colls' = DOMAIN colls
                   /\ \A k \in DOMAIN colls \ {key} : colls'[k] = colls[k]
                   /\ Len(colls'[key]) = Len(colls[key])
                   /\ \A j \in DOMAIN colls[key] :
                        IF colls[key][j].id # req[r].cid
                        THEN colls'[key][j] = colls[key][j]
                        ELSE /\ colls'[key][j].id = req[r].cid
                             /\ DOMAIN colls'[key][j].f
                                  = DOMAIN colls[key][j].f \cup DOMAIN req[r].data
                             /\ \A n \in DOMAIN colls'[key][j].f :
                                  colls'[key][j].f[n] =
                                    IF n \in DOMAIN req[r].data
                                    THEN req[r].data[n]
                                    ELSE colls[key][j].f[n]]_vars

\* C26: unless the storage fails, the write of an update whose :recordId is
\* the _id of no record of the container (one never inserted, or one that is
\* no ObjectId) is answered 404 and changes no record.
C26_UpdateOfMissingRecordIsNotFound ==
  [][\A r \in Reqs :
       (/\ req[r].op = "update" /\ req[r].pc = "update"
        /\ ~UpdatesARecord(r)
        /\ req'[r] # req[r])
         => /\ colls' = colls
            /\ \/ req'[r].err = "StorageError"
               \/ req'[r].res = 404 /\ req'[r].err = "none"]_vars

EntryOf(rec, column) ==
  IF column \in DOMAIN rec.f THEN (column :> rec.f[column]) ELSE <<>>

\* C28: a query that is answered 200 returns, for count, the number of
\* records of the container that match the compiled query; for values, one
\* {column: value} entry per matching record, in stored order; for value, the
\* entry of one matching record, or {} when no record matches.  A query
\* with a known action and its column is answered 200 unless the storage
\* fails or refuses the query.
C28_QueryResultsFollowTheMatches ==
  [][\A r \in Reqs :
       (req[r].op = "query" /\ req[r].pc = "run" /\ req'[r] # req[r])
         => LET rq   == req[r]
                recs == Records(Key(rq))
                sat  == {j \in DOMAIN recs : Matches(recs[j], rq.query)}
                out  == req'[r].out
            IN  /\ req'[r].res = 200 =>
                     CASE rq.action = "count" ->
                            out = <<[count |-> Cardinality(sat)]>>
                       [] rq.action = "values" ->
                            /\ Len(out) = Cardinality(sat)
                            /\ \A k \in DOMAIN out :
                                 out[k] = EntryOf(recs[SortedSeq(sat)[k]], rq.column)
                       [] rq.action = "value" ->
                            IF sat = {} THEN out = <<(<<>>)>>
                            ELSE \E j \in sat : out = <<EntryOf(recs[j], rq.column)>>
                       [] OTHER -> FALSE
                /\ (/\ req'[r].err = "none"
                    /\ \/ rq.action = "count"
                       \/ rq.action \in {"value", "values"} /\ rq.column # "")
                     => req'[r].res = 200]_vars

\* values of column A with a filter that two of the three records match
\* was answered with two entries
C28_Witness ==
  \E r \in Reqs :
    /\ req[r].op = "query" /\ req[r].pc = "close" /\ req[r].res = 200
    /\ req[r].action = "values" /\ req[r].column = "A"
    /\ req[r].query # <<>>
    /\ Len(req[r].out) = 2
    /\ Len(Records(Key(req[r]))) = 3

\* C29: a request that is answered 400 has opened no storage session.
C29_RejectedBeforeAnySession ==
  \A r \in Reqs : req[r].res = 400 => req[r].nOpen = 0

\* C30: no step of a query or of a list of records changes the metadata, a
\* container or a record, whatever the other request is doing.
C30_ReadsChangeNothing ==
  [][\A r \in Reqs :
       (/\ req'[r] # req[r]
        /\ \/ req[r].op \in {"query", "list"} /\ req[r].pc # "done"
           \/ req[r].pc = "idle" /\ req'[r].op \in {"query", "list"})
         => /\ databases' = databases
            /\ colls' = colls
            /\ hist' = hist]_vars

\* a query and a list of records were answered side by side
C30_Witness ==
  \E r, q \in Reqs :
    /\ req[r].op = "query" /\ req[r].pc = "close" /\ req[r].res = 200
    /\ req[q].op = "list" /\ req[q].pc = "close" /\ req[q].res = 200


(* ------------------------------------------------ containers and tables *)
\* no request is between its first and its last step
Quiescent == \A r \in Reqs : ~InFlight(r)

\* the names of the containers in the namespace of a stored database
ContainersOf(d) ==
  {k[2] : k \in {c \in DOMAIN colls : c[1] = databases[d].mongoDbName}}

\* the names of its tables
TableNamesOf(d) == {StoredTables(d)[i].name : i \in TablesOf(d)}

\* C33: whenever no request is in flight and nothing has failed, the
\* containers of a namespace are exactly the tables of its database, for
\* every interleaving of table, record and query requests
C33_ContainersAreTheTables ==
  Quiescent => \A d \in DOMAIN databases : ContainersOf(d) = TableNamesOf(d)

(* --------------------------------------------- rollback among other requests *)
\* C34: the rollback of a failed addTable removes exactly the entry that
\* addTable added, whatever other table requests did to the list meanwhile:
\* after the rollback step the stored tables are the stored tables of before
\* without that entry
C34_RollbackRemovesOwnEntry ==
  [][\A r \in Reqs :
       (/\ req[r].op = "addTable" /\ req[r].pc = "rollback"
        /\ req'[r].pc = "close"
        /\ req[r].dbId \in DOMAIN databases)
       => /\ req[r].dbId \in DOMAIN databases'
          /\ StoredTables(req[r].dbId)' =
               WithoutId(StoredTables(req[r].dbId), req[r].tid)]_vars

(* ------------------------------------------------- records and columns *)
\* the names of the columns of the i-th table of a stored database
ColumnNamesOf(d, i) ==
  {StoredTables(d)[i].columns[j].name : j \in DOMAIN StoredTables(d)[i].columns}

\* C35: whenever no request is in flight and nothing has failed, every
\* record of a table has exactly the names of the table's present columns as
\* its fields; a record inserted before an addColumn has the added field
C35_RecordsHaveTheColumns ==
  Quiescent =>
    \A d \in DOMAIN databases : \A i \in TablesOf(d) :
      LET key == <<databases[d].mongoDbName, StoredTables(d)[i].name>>
      IN  \A n \in DOMAIN Records(key) :
            DOMAIN Records(key)[n].f = ColumnNamesOf(d, i)

(* ------------------------------------------------------ types of fields *)
\* C39: with the columns unchanged, after any inserts and updates every
\* field of a stored record that is named by a column holds a value of the
\* type the column declares
C39_FieldsHaveTheColumnType ==
  \A d \in DOMAIN databases : \A i \in TablesOf(d) :
    LET key  == <<databases[d].mongoDbName, StoredTables(d)[i].name>>
        cols == StoredTables(d)[i].columns
    IN  \A n \in DOMAIN Records(key) : \A j \in DOMAIN cols :
          cols[j].name \in DOMAIN Records(key)[n].f
            => Records(key)[n].f[cols[j].name].t = cols[j].type

\* an update has written a string of the body into the number column B of
\* a record that an insert stored: the record holds numbers in B
C39_Witness ==
  \E r \in Reqs :
    /\ req[r].op = "update" /\ req[r].pc = "reload"
    /\ "B" \in DOMAIN req[r].body /\ req[r].body["B"].t = "string"
    /\ Records(Key(req[r])) # <<>>
    /\ \A n \in DOMAIN Records(Key(req[r])) :
         Records(Key(req[r]))[n].f["B"].t = "number"

(* ------------------------------------------------------- a new table *)
\* C38: the table a successful addTable returns holds no records, whatever
\* happened before: when createCollection has succeeded, the container of
\* the new table is empty
C38_NewTableIsEmpty ==
  [][\A r \in Reqs :
       (/\ req[r].op = "addTable" /\ req[r].pc = "create"
        /\ req'[r].pc = "close")
       => /\ Key(req[r]) \in DOMAIN colls'
          /\ colls'[Key(req[r])] = <<>>]_vars

(* ------------------------------------------- names of one owner *)
\* C37: a create by an owner who has no active database of exactly that
\* name never fails because its namespace id equals that of another
\* database: "Sales!" and "sales?" of one owner are both created, whenever
\* the two creates happen.  A create refused by the unique indexes is
\* refused for a stored document of that owner and name.
C37_OtherNamesDoNotCollide ==
  \A r \in Reqs :
    (req[r].op = "create" /\ req[r].pc = "done" /\ ~OwnerHasName(r)
       /\ req[r].err = "DuplicateKey")
      => \E d \in DOMAIN databases :
           /\ databases[d].owner = req[r].doc.owner
           /\ databases[d].name = req[r].doc.name

(* ------------------------------------------------- databases of others *)
\* the request r has just started on a stored database that is not the
\* caller's
OnForeignDatabase(r) ==
  /\ req[r].pc = "idle" /\ req'[r].pc # "idle"
  /\ req'[r].op \in {"addTable", "removeTable", "addColumn", "removeColumn",
                     "list", "insert", "update", "deleteMany", "query",
                     "destroy"}
  /\ req'[r].dbId \in DOMAIN databases
  /\ databases[req'[r].dbId].owner # req'[r].user

\* C36: a table, column, record, query or destroy request on a database of
\* another owner answers NotFound in its first step, returns nothing, and
\* changes neither the metadata nor any container
C36_ForeignDatabaseIsNotFound ==
  [][\A r \in Reqs :
       OnForeignDatabase(r)
         => /\ req'[r].pc = "done"
            /\ req'[r].res = 404 /\ req'[r].err = "NotFound"
            /\ req'[r].out = <<>> /\ req'[r].doc = NoDoc
            /\ UNCHANGED <<databases, colls, sessions>>]_vars

\* owner B has asked for the records of owner A's database, which holds a
\* record, and was answered NotFound
C36_Witness ==
  \E r \in Reqs :
    /\ req[r].op = "list" /\ req[r].pc = "done" /\ req[r].res = 404
    /\ req[r].user = OwnerB
    /\ req[r].dbId \in DOMAIN databases
    /\ databases[req[r].dbId].owner = OwnerA
    /\ \E k \in DOMAIN colls :
         k[1] = databases[req[r].dbId].mongoDbName /\ colls[k] # <<>>

(* ------------------------------------------- calculations of elements *)
\* the calculations maps of the screens of an app, by the place of their
\* element: <<screen, element, 0>>, and <<screen, element, child>> for the
\* children of a container
ElementCalculations(screens) ==
  UNION {UNION {LET element == screens[i].elements[j]
                IN  {<<i, j, 0, element.calculations>>} \cup
                    {<<i, j, k, element.children[k].calculations>> :
                       k \in DOMAIN element.children} :
                j \in DOMAIN screens[i].elements} :
         i \in DOMAIN screens}

\* C32: a save of screens stores every element, the children of a container
\* included, with the calculations of the body: the same calculation ids,
\* steps and step configs; and a reload returns the stored document
C32_CalculationsSurviveSaveAndReload ==
  [][\A r \in Reqs :
       /\ (/\ req[r].op = "putApp" /\ req[r].pc = "save"
           /\ req'[r].res = 200 /\ "screens" \in DOMAIN req[r].body)
            => /\ ElementCalculations(apps'[req[r].app.id].screens) =
                    ElementCalculations(req[r].body.screens)
               /\ ElementCalculations(req'[r].out[1].screens) =
                    ElementCalculations(req[r].body.screens)
       /\ (req[r].pc = "idle" /\ req'[r].op = "getApp" /\ req'[r].res = 200)
            => /\ req'[r].out[1] \in {apps[a] : a \in DOMAIN apps}
               /\ req'[r].out[1].owner = req'[r].user]_vars

\* the app was reloaded after a save of a container with two calculations
\* whose child has two calculations as well: the reloaded elements have them
C32_Witness ==
  \E r \in Reqs :
    /\ req[r].op = "getApp" /\ req[r].pc = "done" /\ req[r].res = 200
    /\ req[r].out[1].version > 1
    /\ req[r].out[1].screens # << >>
    /\ LET elements == req[r].out[1].screens[1].elements
       IN  /\ elements # << >>
           /\ DOMAIN elements[1].calculations = {"c1", "c2"}
           /\ elements[1].calculations["c2"] = Calculation("c2", "value")
           /\ elements[1].children # << >>
           /\ DOMAIN elements[1].children[1].calculations = {"c1", "c2"}

(* --------------------------------------------------- rows and contexts *)
\* the record with that _id, in any container
RowOf(id) ==
  CHOOSE rec \in UNION {Range(colls[k]) : k \in DOMAIN colls} : rec.id = id

\* C31: an evaluation of a repeating_container calculation returns the
\* value its own row has in the named column, the first time and every time
\* it is repeated, whatever other rows are bound and evaluated beside it,
\* and it changes nothing but its own result
C31_EachRowItsOwnValue ==
  [][\A r \in Reqs :
       (req[r].op = "evaluate" /\ req'[r].pc = "done" /\ req'[r] # req[r])
         => /\ req'[r].out =
                 <<RowOf(req[r].cid).f[
                     req[r].calc.steps[1].config.repeatingColumn]>>
            /\ \A q \in Reqs \ {r} : req'[q] = req[q]
            /\ UNCHANGED <<databases, colls, apps>>]_vars

\* one calculation was evaluated for two rows side by side, and each
\* result is its row's value: the two differ
C31_Witness ==
  /\ \A r \in Reqs : req[r].op = "evaluate" /\ req[r].pc = "done"
  /\ req["r1"].calc = req["r2"].calc
  /\ req["r1"].cid # req["r2"].cid
  /\ req["r1"].out # req["r2"].out
=========================================================================
